---- MODULE Spec2Model ----
(***************************************************************************)
(* A model of gemato's recursive Manifest loader                           *)
(* (gemato/recursiveloader.py), the entry verifier (gemato/verify.py) and  *)
(* the compressed-file helpers (gemato/compression.py).                    *)
(*                                                                         *)
(* Paths are sequences of path components: 'a/x' is <<"a", "x">> and the   *)
(* empty path '' is <<>>.  A file's content is <<"bytes", s>> for a plain   *)
(* file of bytes s and <<"manifest", s>> for the text of a Manifest with   *)
(* the entries s; its size is the length of s and its digest under hash h  *)
(* is <<h, content>>, so that two files have the same digest iff they have *)
(* the same content.                                                       *)
(***************************************************************************)
EXTENDS Integers, Sequences, FiniteSets, TLC

VARIABLES
    fs,                 \* the filesystem: path -> file record
    loaded_manifests,   \* the dict of loaded Manifests, in insertion order
    updated_manifests,  \* the set of Manifest paths queued for saving
    manifest_device,    \* st_dev recorded by the last load_manifest()
    files,              \* the streams of the FileStack that is in use
    op                  \* the last operation: its arguments and its outcome

vars == <<fs, loaded_manifests, updated_manifests, manifest_device, files, op>>

(***************************************************************************)
(* Bounds of the model.                                                    *)
(***************************************************************************)
\* the longest tail of entries drawn for a Manifest of an initial tree
MaxEntries == 2

\* the longest tail of entries drawn for each of the three nested Manifests
MaxDictEntries == 1

(***************************************************************************)
(* Small helpers on sequences and sets.                                    *)
(***************************************************************************)
Max(S) == CHOOSE m \in S : \A n \in S : n <= m

Range(s) == {s[i] : i \in DOMAIN s}

RECURSIVE Concat(_)
Concat(ss) == IF ss = <<>> THEN <<>> ELSE Head(ss) \o Concat(Tail(ss))

\* s without its i-th element
RemoveAt(s, i) == SubSeq(s, 1, i - 1) \o SubSeq(s, i + 1, Len(s))

\* all sequences over S of length at most n
SeqsUpTo(S, n) == UNION {[1..k -> S] : k \in 0..n}

(***************************************************************************)
(* Paths (os.path and gemato.util).                                        *)
(***************************************************************************)
dirname(p) == IF p = <<>> THEN <<>> ELSE SubSeq(p, 1, Len(p) - 1)

basename(p) == IF p = <<>> THEN "" ELSE p[Len(p)]

join(d, p) == d \o p

\* gemato.util.path_starts_with: component-wise prefix test
path_starts_with(path, prefix) ==
    /\ Len(prefix) <= Len(path)
    /\ SubSeq(path, 1, Len(prefix)) = prefix

\* len() of a path component as a string
NameLen(n) ==
    CASE n \in {"a", "b", "x", "y"} -> 1
      [] n = "Manifest" -> 8
      [] n = "Manifest.gz" -> 11
      [] n = "Manifest.files" -> 14
      [] n = "Manifest.files.gz" -> 17
      [] n = ".h" -> 2
      [] n = "files" -> 5
      [] OTHER -> 3

RECURSIVE StrLen(_)
\* len() of a path as a string: the components and the '/' between them
StrLen(p) ==
    IF p = <<>> THEN 0
    ELSE IF Len(p) = 1 THEN NameLen(p[1])
    ELSE NameLen(p[1]) + 1 + StrLen(Tail(p))

(***************************************************************************)
(* Manifest entries (gemato.manifest) and checksums.                       *)
(***************************************************************************)
\* the hash names in sorted() order
HashOrder == <<"BLAKE2B", "SHA256", "SHA512">>

Hashes == Range(HashOrder)

\* file contents: plain bytes, and the text of a Manifest
Bytes(s) == <<"bytes", s>>

ManifestText(entries) == <<"manifest", entries>>

\* the compressed form of a content: gzip.GzipFile stamps the time of
\* writing, mtime, into the header of the file
Gz(data, mtime) == <<"gz", data, mtime>>

\* the number of bytes of a content
Size(data) == Len(data[2])

\* the digest of content under hash h
Hash(h, data) == <<h, data>>

\* the checksum dict of content for the hash names hs
ChecksumsOf(hs, data) == [h \in hs |-> Hash(h, data)]

NoSums == [h \in {} |-> 0]

\* Python's None where a digest is expected
NoDigest == <<"None", <<>>>>

Entry(tag, path, size, checksums) ==
    [tag |-> tag, path |-> path, size |-> size, checksums |-> checksums]

\* Python's None where an entry is expected
None == Entry("None", <<>>, 0, NoSums)

IsNone(e) == e.tag = "None"

IGNORE(path) == Entry("IGNORE", path, 0, NoSums)

TIMESTAMP == Entry("TIMESTAMP", <<>>, 0, NoSums)

\* an entry of the given tag that matches content data under hashes hs
EntryFor(tag, path, hs, data) == Entry(tag, path, Size(data), ChecksumsOf(hs, data))

(***************************************************************************)
(* The filesystem.                                                         *)
(***************************************************************************)
\* No device: expected_dev=None
NoDev == 0

\* kind: the file type ("absent" when the path does not exist); dev: st_dev;
\* enxio: open() fails with ENXIO; zero: st_size is reported as 0;
\* data: the content
File(kind, dev, data) ==
    [kind |-> kind, dev |-> dev, enxio |-> FALSE, zero |-> FALSE, data |-> data]

\* a path that does not exist (ENOENT)
Absent == File("absent", NoDev, Bytes(<<>>))

Dir(dev) == File("dir", dev, Bytes(<<>>))

FsGet(f, p) == IF p \in DOMAIN f THEN f[p] ELSE Absent

\* st_size: some filesystems report 0
StatSize(f) == IF f.zero THEN 0 ELSE Size(f.data)

(***************************************************************************)
(* gemato/verify.py                                                        *)
(***************************************************************************)
\* the human-readable file type verify_path() reports for a file that is
\* not an opened regular file
TypeName(f) ==
    CASE f.kind = "dir" -> "directory"
      [] f.kind = "chr" -> "character device"
      [] f.kind = "blk" -> "block device"
      [] f.kind = "reg" -> "unconnected regular file (?!)"
      [] f.kind = "fifo" -> "named pipe"
      [] f.kind = "sock" -> "UNIX socket"
      [] OTHER -> "unknown"

\* what verify_path() returns or raises
Returned(ok, diff) == [exc |-> "none", ok |-> ok, diff |-> diff]

Raised(exc) == [exc |-> exc, ok |-> FALSE, diff |-> <<>>]

\* the checksum stage of verify_path(): the real size, then each hash of the
\* entry in sorted order
ChecksumDiff(f, e) ==
    (IF Size(f.data) # e.size THEN << <<"__size__", e.size, Size(f.data)>> >> ELSE <<>>)
    \o Concat([i \in DOMAIN HashOrder |->
          LET h == HashOrder[i] IN
          IF h \in DOMAIN e.checksums /\ Hash(h, f.data) # e.checksums[h]
          THEN << <<h, e.checksums[h], Hash(h, f.data)>> >>
          ELSE <<>>])

\* verify_path() with the device test moved behind the file type test
VerifyPathTypeFirst(f, e, expected_dev) ==
    LET exists == f.kind # "absent"
        opened == exists /\ ~f.enxio
        expect_exist == ~IsNone(e) /\ e.tag # "OPTIONAL"
    IN
    IF ~IsNone(e) /\ e.tag = "IGNORE" THEN Returned(TRUE, <<>>)
    ELSE IF exists # expect_exist
        THEN Returned(FALSE, << <<"__exists__", expect_exist, exists>> >>)
    ELSE IF ~exists THEN Returned(TRUE, <<>>)
    ELSE IF ~opened \/ f.kind # "reg"
        THEN Returned(FALSE, << <<"__type__", "regular file", TypeName(f)>> >>)
    ELSE IF expected_dev # NoDev /\ f.dev # expected_dev
        THEN Raised("ManifestCrossDevice")
    ELSE IF StatSize(f) # 0 /\ StatSize(f) # e.size
        THEN Returned(FALSE, << <<"__size__", e.size, StatSize(f)>> >>)
    ELSE LET diff == ChecksumDiff(f, e) IN Returned(diff = <<>>, diff)

\* verify_path() were it to read the file whatever st_size says
VerifyPathReadAlways(f, e, expected_dev) ==
    LET exists == f.kind # "absent"
        opened == exists /\ ~f.enxio
        expect_exist == ~IsNone(e) /\ e.tag # "OPTIONAL"
    IN
    IF ~IsNone(e) /\ e.tag = "IGNORE" THEN Returned(TRUE, <<>>)
    ELSE IF exists # expect_exist
        THEN Returned(FALSE, << <<"__exists__", expect_exist, exists>> >>)
    ELSE IF ~exists THEN Returned(TRUE, <<>>)
    ELSE IF expected_dev # NoDev /\ f.dev # expected_dev
        THEN Raised("ManifestCrossDevice")
    ELSE IF ~opened \/ f.kind # "reg"
        THEN Returned(FALSE, << <<"__type__", "regular file", TypeName(f)>> >>)
    ELSE LET diff == ChecksumDiff(f, e) IN Returned(diff = <<>>, diff)

\* verify_path(path, e, expected_dev), f being the file at path
VerifyPath(f, e, expected_dev) ==
    LET exists == f.kind # "absent"
        opened == exists /\ ~f.enxio
        expect_exist == ~IsNone(e) /\ e.tag # "OPTIONAL"
    IN
    IF ~IsNone(e) /\ e.tag = "IGNORE" THEN Returned(TRUE, <<>>)
    ELSE IF exists # expect_exist
        THEN Returned(FALSE, << <<"__exists__", expect_exist, exists>> >>)
    ELSE IF ~exists THEN Returned(TRUE, <<>>)
    ELSE IF expected_dev # NoDev /\ f.dev # expected_dev
        THEN Raised("ManifestCrossDevice")
    ELSE IF ~opened \/ f.kind # "reg"
        THEN Returned(FALSE, << <<"__type__", "regular file", TypeName(f)>> >>)
    ELSE IF StatSize(f) # 0 /\ StatSize(f) # e.size
        THEN Returned(FALSE, << <<"__size__", e.size, StatSize(f)>> >>)
    ELSE LET diff == ChecksumDiff(f, e) IN Returned(diff = <<>>, diff)

COMPATIBLE_TAGS == {"MANIFEST", "DATA", "EBUILD", "AUX"}

\* e.checksums.get(h)
SumGet(e, h) == IF h \in DOMAIN e.checksums THEN e.checksums[h] ELSE NoDigest

\* the entry classes that carry size and checksums (ManifestFileEntry);
\* IGNORE and TIMESTAMP entries have neither attribute
HasSize(e) == e.tag \notin {"IGNORE", "TIMESTAMP", "None"}

\* verify_entry_compatibility(e1, e2): what it returns (ok, diff), or the
\* AttributeError of reading .size of an entry that has none
verify_entry_compatibility(e1, e2) ==
    IF e1.tag # e2.tag /\ (e1.tag \notin COMPATIBLE_TAGS \/ e2.tag \notin COMPATIBLE_TAGS)
        THEN [exc |-> "none", ok |-> FALSE, diff |-> << <<"__type__", e1.tag, e2.tag>> >>]
    ELSE IF ~HasSize(e1) \/ ~HasSize(e2)
        THEN [exc |-> "AttributeError", ok |-> FALSE, diff |-> <<>>]
    ELSE IF e1.size # e2.size
        THEN [exc |-> "none", ok |-> FALSE, diff |-> << <<"__size__", e1.size, e2.size>> >>]
    ELSE LET hs == DOMAIN e1.checksums \union DOMAIN e2.checksums
             order == SelectSeq(HashOrder, LAMBDA h : h \in hs /\ SumGet(e1, h) # SumGet(e2, h))
         IN [exc |-> "none",
             ok |-> \A i \in DOMAIN order :
                        SumGet(e1, order[i]) = NoDigest \/ SumGet(e2, order[i]) = NoDigest,
             diff |-> [i \in DOMAIN order |->
                          <<order[i], SumGet(e1, order[i]), SumGet(e2, order[i])>>]]

(***************************************************************************)
(* gemato/recursiveloader.py: the loader's state and the loading of        *)
(* Manifests.  The operations are operators on a record W of the loader's  *)
(* attributes and the filesystem; W.exc names the exception an operation   *)
(* ended with ("none" when it returned).                                   *)
(***************************************************************************)
World(f, lm, um, dev) ==
    [fs |-> f, loaded_manifests |-> lm, updated_manifests |-> um,
     manifest_device |-> dev, exc |-> "none"]

Raise(W, exc) == [W EXCEPT !.exc = exc]

\* loaded_manifests is a dict: a sequence of [k |-> relative path, m |-> entries]
\* in insertion order
Keys(lm) == {lm[i].k : i \in DOMAIN lm}

IndexOf(lm, k) == CHOOSE i \in DOMAIN lm : lm[i].k = k

Get(lm, k) == lm[IndexOf(lm, k)].m

\* lm[k] = m
Put(lm, k, m) ==
    IF k \in Keys(lm) THEN [lm EXCEPT ![IndexOf(lm, k)].m = m]
    ELSE Append(lm, [k |-> k, m |-> m])

\* del lm[k]
Del(lm, k) == SelectSeq(lm, LAMBDA x : x.k # k)

\* get_compressed_suffix_from_filename(path): the suffix, or "None"
get_compressed_suffix_from_filename(path) ==
    IF basename(path) \in {"Manifest.gz", "Manifest.files.gz"} THEN "gz" ELSE "None"

\* what open_potentially_compressed_path(path, 'r') and ManifestFile.load()
\* make of the existing file f at relpath: the entries or the exception
ReadManifest(relpath, f) ==
    IF f.kind # "reg" \/ f.enxio THEN [exc |-> "IOError", entries |-> <<>>]
    ELSE IF get_compressed_suffix_from_filename(relpath) # "None"
        THEN IF f.data[1] # "gz" THEN [exc |-> "IOError", entries |-> <<>>]
             ELSE IF f.data[2][1] # "manifest"
                 THEN [exc |-> "ManifestSyntaxError", entries |-> <<>>]
             ELSE [exc |-> "none", entries |-> f.data[2][2]]
    ELSE IF f.data[1] = "gz" THEN [exc |-> "UnicodeDecodeError", entries |-> <<>>]
    ELSE IF f.data[1] # "manifest" THEN [exc |-> "ManifestSyntaxError", entries |-> <<>>]
    ELSE [exc |-> "none", entries |-> f.data[2]]

\* load_manifest() once the file f is verified: r is what reading it gives
Loaded(W, relpath, f, r, allow_create) ==
    IF f.kind = "absent" THEN
        IF allow_create
        THEN [W EXCEPT !.updated_manifests = @ \union {relpath},
                       !.manifest_device = FsGet(W.fs, dirname(relpath)).dev,
                       !.loaded_manifests = Put(@, relpath, <<>>)]
        ELSE Raise(W, "IOError")
    ELSE IF r.exc # "none" THEN Raise(W, r.exc)
    ELSE [W EXCEPT !.manifest_device = f.dev,
                   !.loaded_manifests = Put(@, relpath, r.entries)]

\* load_manifest(relpath, verify_entry, allow_create), were the file not to
\* be compared with verify_entry
load_manifest_unverified(W, relpath, verify_entry, allow_create) ==
    Loaded(W, relpath, FsGet(W.fs, relpath),
           ReadManifest(relpath, FsGet(W.fs, relpath)), allow_create)

\* load_manifest(relpath, verify_entry, allow_create)
load_manifest(W, relpath, verify_entry, allow_create) ==
    IF ~IsNone(verify_entry)
       /\ ~VerifyPath(FsGet(W.fs, relpath), verify_entry, NoDev).ok
    THEN Raise(W, "ManifestMismatch")
    ELSE Loaded(W, relpath, FsGet(W.fs, relpath),
                ReadManifest(relpath, FsGet(W.fs, relpath)), allow_create)

\* _iter_unordered_manifests_for_path(path, recursive)
iter_unordered_manifests_for_path(lm, path, recursive) ==
    SelectSeq(lm, LAMBDA x :
        \/ path_starts_with(path, dirname(x.k))
        \/ recursive /\ path_starts_with(dirname(x.k), path))

RECURSIVE SortedByKeyReverse(_, _)
\* sorted(s, key=len(dir), reverse=True) for the key values ks: a stable sort
SortedByKeyReverse(s, ks) ==
    IF ks = {} THEN <<>>
    ELSE LET k == Max(ks) IN
         SelectSeq(s, LAMBDA x : StrLen(dirname(x.k)) = k)
             \o SortedByKeyReverse(s, ks \ {k})

\* _iter_manifests_for_path() without its sort: the dict's order
iter_manifests_unsorted(lm, path, recursive) ==
    iter_unordered_manifests_for_path(lm, path, recursive)

\* _iter_manifests_for_path(path, recursive): deepest directory first
iter_manifests_for_path(lm, path, recursive) ==
    LET s == iter_unordered_manifests_for_path(lm, path, recursive) IN
    SortedByKeyReverse(s, {StrLen(dirname(s[i].k)) : i \in DOMAIN s})

\* the to_load list of one round of load_manifests_for_path(), were every
\* MANIFEST entry of an applicable Manifest to be taken whatever its directory
ToLoadAll(lm, path, recursive) ==
    LET it == iter_manifests_for_path(lm, path, recursive)
        pick(x, e) ==
            LET mpath == join(dirname(x.k), e.path)
            IN IF e.tag = "MANIFEST" /\ x.k # mpath /\ mpath \notin Keys(lm)
               THEN << [mpath |-> mpath, e |-> e] >>
               ELSE <<>>
    IN Concat([i \in DOMAIN it |->
                 Concat([j \in DOMAIN it[i].m |-> pick(it[i], it[i].m[j])])])

\* the to_load list of one round of load_manifests_for_path()
ToLoad(lm, path, recursive) ==
    LET it == iter_manifests_for_path(lm, path, recursive)
        pick(x, e) ==
            LET mpath == join(dirname(x.k), e.path)
                mdir == dirname(mpath)
            IN IF /\ e.tag = "MANIFEST"
                  /\ x.k # mpath
                  /\ mpath \notin Keys(lm)
                  /\ \/ path_starts_with(path, mdir)
                     \/ recursive /\ path_starts_with(mdir, path)
               THEN << [mpath |-> mpath, e |-> e] >>
               ELSE <<>>
    IN Concat([i \in DOMAIN it |->
                 Concat([j \in DOMAIN it[i].m |-> pick(it[i], it[i].m[j])])])

RECURSIVE LoadList(_, _)
\* for mpath, e in to_load: self.load_manifest(mpath, e)
LoadList(W, l) ==
    IF l = <<>> \/ W.exc # "none" THEN W
    ELSE LoadList(load_manifest(W, Head(l).mpath, Head(l).e, FALSE), Tail(l))

RECURSIVE LoadedBy(_, _)
\* the paths that the loop over to_load calls load_manifest() with
LoadedBy(W, l) ==
    IF l = <<>> \/ W.exc # "none" THEN <<>>
    ELSE <<Head(l).mpath>>
         \o LoadedBy(load_manifest(W, Head(l).mpath, Head(l).e, FALSE), Tail(l))

\* load_manifests_for_path() doing a single round instead of iterating to
\* the fixed point
load_manifests_single_pass(W, path, recursive) ==
    LoadList(W, ToLoad(W.loaded_manifests, path, recursive))

RECURSIVE load_manifests_for_path(_, _, _)
\* load_manifests_for_path(path, recursive)
load_manifests_for_path(W, path, recursive) ==
    LET to_load == ToLoad(W.loaded_manifests, path, recursive) IN
    IF to_load = <<>> THEN W
    ELSE LET W2 == LoadList(W, to_load) IN
         IF W2.exc # "none" THEN W2
         ELSE load_manifests_for_path(W2, path, recursive)

RECURSIVE LoadCalls(_, _, _)
\* the paths that load_manifests_for_path(path, recursive) calls
\* load_manifest() with, in the order of the calls
LoadCalls(W, path, recursive) ==
    LET to_load == ToLoad(W.loaded_manifests, path, recursive) IN
    IF to_load = <<>> THEN <<>>
    ELSE LoadedBy(W, to_load)
         \o (IF LoadList(W, to_load).exc # "none" THEN <<>>
             ELSE LoadCalls(LoadList(W, to_load), path, recursive))

\* the composed path of entry e of the Manifest x
FullPath(x, e) == join(dirname(x.k), e.path)

\* the test find_path_entry() applies to entry e of Manifest x
FindMatches(x, e, path) ==
    IF e.tag = "IGNORE" THEN path_starts_with(path, FullPath(x, e))
    ELSE IF e.tag \in {"DIST", "TIMESTAMP"} THEN FALSE
    ELSE FullPath(x, e) = path

\* the entries of the Manifests it that find_path_entry(path) stops at, each
\* with its Manifest, in the order of the search
PathHits(it, path) ==
    Concat([i \in DOMAIN it |->
        [j \in DOMAIN SelectSeq(it[i].m, LAMBDA e : FindMatches(it[i], e, path)) |->
            [k |-> it[i].k,
             e |-> SelectSeq(it[i].m, LAMBDA e : FindMatches(it[i], e, path))[j]]]])

\* find_path_entry() after load_manifests_for_path() came to the loader W2,
\* found being the entries it can stop at
PathEntryOf(W2, found) ==
    IF W2.exc # "none" \/ found = <<>>
    THEN [W |-> W2, ret |-> None, from |-> <<>>]
    ELSE [W |-> W2, ret |-> found[1].e, from |-> found[1].k]

PathEntryIn(W2, path) ==
    PathEntryOf(W2, PathHits(iter_manifests_for_path(W2.loaded_manifests, path, FALSE),
                             path))

\* find_path_entry(path): the loader after it, the entry returned (or None)
\* and the Manifest the entry was found in
find_path_entry(W, path) == PathEntryIn(load_manifests_for_path(W, path, FALSE), path)

\* find_timestamp(): the loader after it and the entry returned (or None)
find_timestamp(W) ==
    LET W2 == load_manifests_for_path(W, <<>>, FALSE)
        it == iter_manifests_for_path(W2.loaded_manifests, <<>>, FALSE)
        found == Concat([i \in DOMAIN it |->
                    SelectSeq(it[i].m, LAMBDA e : e.tag = "TIMESTAMP")])
    IN IF W2.exc # "none" \/ found = <<>>
       THEN [W |-> W2, ret |-> None]
       ELSE [W |-> W2, ret |-> found[1]]

\* relpath + '/': the path with an empty last component
WithSlash(relpath) == relpath \o <<"">>

\* find_dist_entry(filename, relpath): the loader after it and the entry
\* returned (or None)
find_dist_entry(W, filename, relpath) ==
    LET W2 == load_manifests_for_path(W, WithSlash(relpath), FALSE)
        it == iter_manifests_for_path(W2.loaded_manifests, WithSlash(relpath), FALSE)
        found == Concat([i \in DOMAIN it |->
                    SelectSeq(it[i].m,
                              LAMBDA e : e.tag = "DIST" /\ e.path = filename)])
    IN IF W2.exc # "none" \/ found = <<>>
       THEN [W |-> W2, ret |-> None]
       ELSE [W |-> W2, ret |-> found[1]]

\* verify_path(relpath) after its call of find_path_entry(), which came to r
PathVerified(r, relpath) ==
    IF r.W.exc # "none" THEN [W |-> r.W, ret |-> Returned(FALSE, <<>>)]
    ELSE [W |-> r.W, ret |-> VerifyPath(FsGet(r.W.fs, relpath), r.ret, NoDev)]

\* ManifestRecursiveLoader.verify_path(relpath): the loader after it and
\* what gemato.verify.verify_path() returned
verify_path(W, relpath) == PathVerified(find_path_entry(W, relpath), relpath)

\* assert_path_verifies(relpath) after gemato.verify.verify_path() came to v
PathAsserted(W, v) ==
    IF v.exc # "none" THEN Raise(W, v.exc)
    ELSE IF ~v.ok THEN Raise(W, "ManifestMismatch")
    ELSE W

\* assert_path_verifies(relpath) after its call of find_path_entry(), which
\* came to r
PathFound(r, relpath) ==
    IF r.W.exc # "none" THEN r.W
    ELSE PathAsserted(r.W, VerifyPath(FsGet(r.W.fs, relpath), r.ret, r.W.manifest_device))

\* assert_path_verifies(relpath)
assert_path_verifies(W, relpath) == PathFound(find_path_entry(W, relpath), relpath)

(***************************************************************************)
(* get_file_entry_dict().  The dict it builds is a sequence of             *)
(* [k |-> composed path, e |-> entry] in insertion order.                  *)
(***************************************************************************)
DKeys(d) == {d[i].k : i \in DOMAIN d}

DGet(d, k) == d[CHOOSE i \in DOMAIN d : d[i].k = k].e

\* d[k] = e
DPut(d, k, e) ==
    IF k \in DKeys(d) THEN [d EXCEPT ![CHOOSE i \in DOMAIN d : d[i].k = k].e = e]
    ELSE Append(d, [k |-> k, e |-> e])

\* d.pop(k)
DPop(d, k) == SelectSeq(d, LAMBDA x : x.k # k)

\* only_types=None
AnyType == {"None"}

\* the entry get_file_entry_dict() stores for a path seen before: a copy of e
\* with the hashes that only the stored entry had (the diff rows whose third
\* member is None)
MergedEntry(e, diff) ==
    LET extra == {i \in DOMAIN diff : diff[i][3] = NoDigest}
        name(h) == CHOOSE i \in extra : diff[i][1] = h
    IN Entry(e.tag, e.path, e.size,
             [h \in DOMAIN e.checksums \union {diff[i][1] : i \in extra} |->
                 IF h \in DOMAIN e.checksums THEN e.checksums[h]
                 ELSE diff[name(h)][2]])

RECURSIVE DictEntries(_, _, _, _, _)
\* the loop of get_file_entry_dict() over the entries es of one Manifest;
\* relpath is the loop's variable of that name
DictEntries(out, es, relpath, path, only_types) ==
    IF es = <<>> THEN [out |-> out, exc |-> "none"]
    ELSE
    LET e == Head(es)
        skipped == IF only_types # AnyType THEN e.tag \notin only_types
                   ELSE e.tag \in {"DIST", "TIMESTAMP"}
        rp == IF only_types # AnyType /\ ~skipped /\ e.tag = "DIST"
              THEN <<>> ELSE relpath
        fullpath == join(rp, e.path)
    IN
    IF skipped THEN DictEntries(out, Tail(es), relpath, path, only_types)
    ELSE IF ~path_starts_with(fullpath, path)
        THEN DictEntries(out, Tail(es), rp, path, only_types)
    ELSE IF fullpath \notin DKeys(out)
        THEN DictEntries(DPut(out, fullpath, e), Tail(es), rp, path, only_types)
    ELSE LET c == verify_entry_compatibility(DGet(out, fullpath), e) IN
         IF c.exc # "none" THEN [out |-> out, exc |-> c.exc]
         ELSE IF ~c.ok THEN [out |-> out, exc |-> "ManifestIncompatibleEntry"]
         ELSE DictEntries(
                 DPut(out, fullpath,
                      IF c.diff # <<>> THEN MergedEntry(e, c.diff) ELSE e),
                 Tail(es), rp, path, only_types)

RECURSIVE DictManifests(_, _, _, _)
\* the loop of get_file_entry_dict() over the Manifests it
DictManifests(out, it, path, only_types) ==
    IF it = <<>> THEN [out |-> out, exc |-> "none"]
    ELSE LET r == DictEntries(out, Head(it).m, dirname(Head(it).k), path, only_types)
         IN IF r.exc # "none" THEN r
            ELSE DictManifests(r.out, Tail(it), path, only_types)

\* get_file_entry_dict(path, only_types): the loader after it and the dict
get_file_entry_dict(W, path, only_types) ==
    LET W2 == load_manifests_for_path(W, path, TRUE) IN
    IF W2.exc # "none" THEN [W |-> W2, ret |-> <<>>]
    ELSE LET r == DictManifests(<<>>,
                     iter_manifests_for_path(W2.loaded_manifests, path, TRUE),
                     path, only_types)
         IN [W |-> Raise(W2, r.exc), ret |-> IF r.exc = "none" THEN r.out ELSE <<>>]

(***************************************************************************)
(* assert_directory_verifies().  A scan S carries the locals of the call:  *)
(* entry_dict, ret, the skip_dirs of the directory being listed, the       *)
(* exception that ended it, and a log with one event per directory name    *)
(* the first loop handled and per _verify_one_file() call.                 *)
(***************************************************************************)
\* the names of the model that start with a dot
StartsWithDot(n) == n \in {".h"}

\* get_potential_compressed_names(path)
get_potential_compressed_names(n) ==
    CASE n = "Manifest" ->
            <<"Manifest", "Manifest.gz", "Manifest.bz2", "Manifest.lzma", "Manifest.xz">>
      [] OTHER -> <<n>>

\* what a handler does when called: it raises the exception it is given, or
\* returns False or None
HandlerResults == {"raise", "False", "None"}

\* the handlers of a call: warn_handler defaults to fail_handler
Handlers(fail, warn) ==
    [fail |-> [name |-> "fail_handler", does |-> fail],
     warn |-> IF warn = "default" THEN [name |-> "fail_handler", does |-> fail]
              ELSE [name |-> "warn_handler", does |-> warn]]

Event(kind, path, e, h, diff, exc) ==
    [kind |-> kind, path |-> path, e |-> e, h |-> h, diff |-> diff, exc |-> exc]

Logged(S, ev) == [S EXCEPT !.log = Append(@, ev)]

\* every failure goes to warn_handler
HandlerForWarnOnly(e) == "warn"

\* the handler _verify_one_file() calls when the entry e fails
HandlerFor(e) ==
    IF ~IsNone(e) /\ e.tag \in {"MISC", "OPTIONAL"} THEN "warn" ELSE "fail"

\* a handler's None is taken as False
HandledNoneAsFalse(S, kind, relpath, e, v, h) ==
    IF v.exc # "none"
        THEN Logged([S EXCEPT !.exc = v.exc],
                    Event(kind, relpath, e, "none", <<>>, v.exc))
    ELSE IF v.ok THEN Logged(S, Event(kind, relpath, e, "none", <<>>, "none"))
    ELSE IF h.does = "raise"
        THEN Logged([S EXCEPT !.exc = "ManifestMismatch"],
                    Event(kind, relpath, e, h.name, v.diff, "ManifestMismatch"))
    ELSE Logged([S EXCEPT !.ret = FALSE],
                Event(kind, relpath, e, h.name, v.diff, "none"))

\* _verify_one_file() once verify_path() has come to v, h being the handler
\* for the entry: the call of the handler and the ret &= of the caller
Handled(S, kind, relpath, e, v, h) ==
    IF v.exc # "none"
        THEN Logged([S EXCEPT !.exc = v.exc],
                    Event(kind, relpath, e, "none", <<>>, v.exc))
    ELSE IF v.ok THEN Logged(S, Event(kind, relpath, e, "none", <<>>, "none"))
    ELSE IF h.does = "raise"
        THEN Logged([S EXCEPT !.exc = "ManifestMismatch"],
                    Event(kind, relpath, e, h.name, v.diff, "ManifestMismatch"))
    ELSE Logged([S EXCEPT !.ret = @ /\ (h.does # "False")],
                Event(kind, relpath, e, h.name, v.diff, "none"))

\* _verify_one_file(path, relpath, e, fail_handler, warn_handler)
verify_one_file(W, S, kind, relpath, e, handlers) ==
    IF S.exc # "none" THEN S
    ELSE Handled(S, kind, relpath, e,
                 VerifyPath(FsGet(W.fs, relpath), e, W.manifest_device),
                 handlers[HandlerFor(e)])

\* a directory without entry that is taken as it is
DirWithoutEntryUnchecked(W, S, dpath) ==
    Logged(S, Event("dir", dpath, None, "none", <<>>, "none"))

\* a directory without entry: the device test
DirWithoutEntry(W, S, dpath) ==
    IF FsGet(W.fs, dpath).dev # W.manifest_device
    THEN Logged([S EXCEPT !.exc = "ManifestCrossDevice"],
                Event("dir", dpath, None, "none", <<>>, "ManifestCrossDevice"))
    ELSE Logged(S, Event("dir", dpath, None, "none", <<>>, "none"))

\* the body of the loop over dirnames for the name d of directory relpath
ScanDirname(W, S, relpath, d, handlers) ==
    LET dpath == join(relpath, <<d>>)
        has == dpath \in DKeys(S.entry_dict)
        de == IF has THEN DGet(S.entry_dict, dpath) ELSE None
        S1 == [S EXCEPT !.entry_dict = DPop(@, dpath)]
    IN
    IF S.exc # "none" THEN S
    ELSE IF StartsWithDot(d) THEN [S EXCEPT !.skip_dirs = @ \union {d}]
    ELSE IF ~has THEN DirWithoutEntry(W, S1, dpath)
    ELSE IF de.tag = "IGNORE"
        THEN Logged([S1 EXCEPT !.skip_dirs = @ \union {d}],
                    Event("dir", dpath, de, "none", <<>>, "none"))
    ELSE verify_one_file(W, S1, "dir", dpath, de, handlers)

RECURSIVE ScanDirnames(_, _, _, _, _)
ScanDirnames(W, S, relpath, ds, handlers) ==
    IF ds = <<>> THEN S
    ELSE ScanDirnames(W, ScanDirname(W, S, relpath, Head(ds), handlers),
                      relpath, Tail(ds), handlers)

\* the body of the loop over filenames for the name f of directory relpath
ScanFilename(W, S, relpath, f, handlers) ==
    LET fpath == join(relpath, <<f>>)
        fe == IF fpath \in DKeys(S.entry_dict) THEN DGet(S.entry_dict, fpath) ELSE None
    IN
    IF S.exc # "none" \/ StartsWithDot(f) THEN S
    ELSE IF \E n \in Range(get_potential_compressed_names("Manifest")) : fpath = <<n>>
        THEN S
    ELSE verify_one_file(W, [S EXCEPT !.entry_dict = DPop(@, fpath)],
                         "file", fpath, fe, handlers)

RECURSIVE ScanFilenames(_, _, _, _, _)
ScanFilenames(W, S, relpath, fnames, handlers) ==
    IF fnames = <<>> THEN S
    ELSE ScanFilenames(W, ScanFilename(W, S, relpath, Head(fnames), handlers),
                       relpath, Tail(fnames), handlers)

\* os.listdir of directory d, in the order the names have in the sequence
\* order
listdir(f, d, order) ==
    SelectSeq(order, LAMBDA n : FsGet(f, join(d, <<n>>)).kind # "absent")

\* the dirnames and the filenames os.walk() yields for directory relpath
Subdirs(f, relpath, order) ==
    SelectSeq(listdir(f, relpath, order),
              LAMBDA n : FsGet(f, join(relpath, <<n>>)).kind = "dir")

Nondirs(f, relpath, order) ==
    SelectSeq(listdir(f, relpath, order),
              LAMBDA n : FsGet(f, join(relpath, <<n>>)).kind # "dir")

RECURSIVE walk(_, _, _, _, _)
RECURSIVE WalkInto(_, _, _, _, _, _)
\* the walk of directory relpath after the loop over its dirnames has come
\* to scan S1: the loop over its filenames, then the directories the first
\* loop left in dirnames
WalkRest(W, S1, relpath, order, handlers) ==
    WalkInto(W,
             ScanFilenames(W, S1, relpath, Nondirs(W.fs, relpath, order), handlers),
             relpath,
             SelectSeq(Subdirs(W.fs, relpath, order), LAMBDA n : n \notin S1.skip_dirs),
             order, handlers)

\* os.walk(relpath, followlinks=True) with the body of the loop of
\* assert_directory_verifies()
walk(W, S, relpath, order, handlers) ==
    IF S.exc # "none" THEN S
    ELSE WalkRest(W,
                  ScanDirnames(W, [S EXCEPT !.skip_dirs = {}], relpath,
                               Subdirs(W.fs, relpath, order), handlers),
                  relpath, order, handlers)

WalkInto(W, S, relpath, ds, order, handlers) ==
    IF ds = <<>> THEN S
    ELSE WalkInto(W, walk(W, S, join(relpath, <<Head(ds)>>), order, handlers),
                  relpath, Tail(ds), order, handlers)

RECURSIVE ScanMissing(_, _, _, _)
\* the loop over the entries left in entry_dict ("missing files")
ScanMissing(W, S, items, handlers) ==
    IF items = <<>> THEN S
    ELSE ScanMissing(W,
            verify_one_file(W, S, "missing", Head(items).k, Head(items).e, handlers),
            Tail(items), handlers)

\* the locals of assert_directory_verifies() before the walk
NewScan(entry_dict) ==
    [entry_dict |-> entry_dict, ret |-> TRUE, skip_dirs |-> {},
     log |-> <<>>, exc |-> "none"]

\* the walk from path; os.walk() fails on what is no directory
ScanTree(W, S, path, handlers, order) ==
    IF FsGet(W.fs, path).kind # "dir" THEN [S EXCEPT !.exc = "OSError"]
    ELSE walk(W, S, path, order, handlers)

\* the outcome of assert_directory_verifies(): g is what get_file_entry_dict()
\* came to and S the scan after the walk
Verified(g, S) ==
    IF g.W.exc # "none"
    THEN [W |-> g.W, ret |-> FALSE, log |-> <<>>, entry_dict |-> <<>>]
    ELSE [W |-> Raise(g.W, S.exc), ret |-> S.exc = "none" /\ S.ret,
          log |-> S.log, entry_dict |-> g.ret]

\* only the first of the entries left in entry_dict is verified
ScanLeftFirst(W, S, handlers) ==
    ScanMissing(W, S, IF S.entry_dict = <<>> THEN <<>> ELSE <<Head(S.entry_dict)>>,
                handlers)

ScanLeft(W, S, handlers) == ScanMissing(W, S, S.entry_dict, handlers)

\* assert_directory_verifies() after its call of get_file_entry_dict()
VerifyTree(g, path, handlers, order) ==
    Verified(g, ScanLeft(g.W, ScanTree(g.W, NewScan(g.ret), path, handlers, order),
                         handlers))

\* assert_directory_verifies(path, fail_handler, warn_handler), the
\* directories being listed in the given order of names
assert_directory_verifies(W, path, handlers, order) ==
    VerifyTree(get_file_entry_dict(W, path, AnyType), path, handlers, order)

(***************************************************************************)
(* Updating entries: gemato.verify.update_entry_for_path() and the         *)
(* loader's update_entry_for_path().                                       *)
(***************************************************************************)
\* hashes=None
NoHashes == {"None"}

\* gemato.verify.update_entry_for_path(path, e, hashes, expected_dev), f
\* being the file at path: the exception (with the detail of
\* ManifestInvalidPath), or the entry with the size and checksums of f
verify_update_entry_for_path(f, e, hashes, expected_dev) ==
    IF f.kind = "absent"
        THEN [exc |-> "ManifestInvalidPath", detail |-> "__exists__", e |-> e]
    ELSE IF expected_dev # NoDev /\ f.dev # expected_dev
        THEN [exc |-> "ManifestCrossDevice", detail |-> "", e |-> e]
    ELSE IF f.enxio \/ f.kind # "reg"
        THEN [exc |-> "ManifestInvalidPath", detail |-> "__type__", e |-> e]
    ELSE [exc |-> "none", detail |-> "",
          e |-> [e EXCEPT !.size = Size(f.data),
                          !.checksums = ChecksumsOf(
                              IF hashes = NoHashes THEN DOMAIN e.checksums ELSE hashes,
                              f.data)]]

\* the sequence s without the elements at the indices rm
Without(s, rm) ==
    LET keep == SelectSeq([i \in DOMAIN s |-> i], LAMBDA i : i \notin rm)
    IN [j \in DOMAIN keep |-> s[keep[j]]]

\* the try block for entry i were it to leave had_entry as it was, so that
\* every entry for the path is updated and none is taken for a duplicate
TriedUpdateKeepsAll(A, i, r) ==
    IF r.exc = "ManifestInvalidPath" /\ r.detail = "__exists__"
        THEN [A EXCEPT !.rm = @ \union {i}]
    ELSE IF r.exc # "none" THEN [A EXCEPT !.exc = r.exc]
    ELSE [A EXCEPT !.es[i] = r.e, !.dirty = TRUE]

\* the try block for entry i were it to keep the entry of a file that is
\* gone
TriedUpdateKeepsGone(A, i, r) ==
    IF r.exc = "ManifestInvalidPath" /\ r.detail = "__exists__"
        THEN [A EXCEPT !.had_entry = TRUE]
    ELSE IF r.exc # "none" THEN [A EXCEPT !.exc = r.exc]
    ELSE [A EXCEPT !.es[i] = r.e, !.dirty = TRUE, !.had_entry = TRUE]

\* A holds the locals of update_entry_for_path() while it goes through the
\* entries of one Manifest: es the entries, rm the indices of those in
\* entries_to_remove, dirty whether the Manifest was added to
\* updated_manifests.  TriedUpdate is the outcome of the try block for
\* entry i, r being what gemato.verify.update_entry_for_path() came to.
TriedUpdate(A, i, r) ==
    IF r.exc = "ManifestInvalidPath" /\ r.detail = "__exists__"
        THEN [A EXCEPT !.rm = @ \union {i}, !.had_entry = TRUE]
    ELSE IF r.exc # "none" THEN [A EXCEPT !.exc = r.exc]
    ELSE [A EXCEPT !.es[i] = r.e, !.dirty = TRUE, !.had_entry = TRUE]

\* the body of the loop were an OPTIONAL entry passed over like a DIST
\* entry, without setting had_entry
UpdateOneEntryOptionalSkipped(W, A, i, relpath, path, hashes) ==
    LET e == A.es[i]
        fullpath == join(relpath, e.path)
    IN
    IF A.exc # "none" THEN A
    ELSE IF e.tag = "IGNORE"
        THEN IF path_starts_with(path, fullpath)
             THEN [A EXCEPT !.exc = "AssertionError"] ELSE A
    ELSE IF e.tag \in {"DIST", "TIMESTAMP", "OPTIONAL"} THEN A
    ELSE IF fullpath # path THEN A
    ELSE IF A.had_entry THEN [A EXCEPT !.rm = @ \union {i}]
    ELSE TriedUpdate(A, i,
            verify_update_entry_for_path(FsGet(W.fs, fullpath), e, hashes,
                                         W.manifest_device))

\* the body of the loop over m.entries for entry i of the Manifest of
\* directory relpath
UpdateOneEntry(W, A, i, relpath, path, hashes) ==
    LET e == A.es[i]
        fullpath == join(relpath, e.path)
    IN
    IF A.exc # "none" THEN A
    ELSE IF e.tag = "IGNORE"
        THEN IF path_starts_with(path, fullpath)
             THEN [A EXCEPT !.exc = "AssertionError"] ELSE A
    ELSE IF e.tag \in {"DIST", "TIMESTAMP"} THEN A
    ELSE IF e.tag = "OPTIONAL"
        THEN IF fullpath = path THEN [A EXCEPT !.had_entry = TRUE] ELSE A
    ELSE IF fullpath # path THEN A
    ELSE IF A.had_entry THEN [A EXCEPT !.rm = @ \union {i}]
    ELSE TriedUpdate(A, i,
            verify_update_entry_for_path(FsGet(W.fs, fullpath), e, hashes,
                                         W.manifest_device))

RECURSIVE UpdateEntriesFrom(_, _, _, _, _, _)
UpdateEntriesFrom(W, A, i, relpath, path, hashes) ==
    IF i > Len(A.es) THEN A
    ELSE UpdateEntriesFrom(W, UpdateOneEntry(W, A, i, relpath, path, hashes),
                           i + 1, relpath, path, hashes)

\* the end of the loop body for the Manifest mpath: the entries to remove
\* are removed, unless an exception has ended the call before
UpdatedManifest(M, mpath, A) ==
    [lm |-> Put(M.lm, mpath,
                IF A.exc = "none" THEN Without(A.es, A.rm) ELSE A.es),
     um |-> IF A.dirty \/ (A.exc = "none" /\ A.rm # {})
            THEN M.um \union {mpath} ELSE M.um,
     had_entry |-> A.had_entry,
     exc |-> A.exc]

RECURSIVE UpdateManifests(_, _, _, _, _)
\* the first loop of update_entry_for_path() over the Manifests ks
UpdateManifests(W, M, ks, path, hashes) ==
    IF ks = <<>> \/ M.exc # "none" THEN M
    ELSE UpdateManifests(W,
            UpdatedManifest(M, Head(ks),
                UpdateEntriesFrom(W,
                    [es |-> Get(M.lm, Head(ks)), rm |-> {},
                     had_entry |-> M.had_entry, dirty |-> FALSE, exc |-> "none"],
                    1, dirname(Head(ks)), path, hashes)),
            Tail(ks), path, hashes)

\* gemato.util.path_inside_dir(path, directory)
path_inside_dir(path, directory) ==
    path_starts_with(path, directory) /\ path # directory

\* os.path.relpath(path, start) for a start that is above path
relpath_from(path, start) == SubSeq(path, Len(start) + 1, Len(path))

\* the new entry were it appended without the Manifest being added to
\* updated_manifests
AppendedUnmarked(M, mpath, r) ==
    IF r.exc # "none" THEN [M EXCEPT !.exc = r.exc]
    ELSE [M EXCEPT !.lm = Put(@, mpath, Append(Get(@, mpath), r.e)),
                   !.had_entry = TRUE]

\* the new entry appended to the Manifest mpath: r is what
\* gemato.verify.update_entry_for_path() made of it
Appended(M, mpath, r) ==
    IF r.exc # "none" THEN [M EXCEPT !.exc = r.exc]
    ELSE [M EXCEPT !.lm = Put(@, mpath, Append(Get(@, mpath), r.e)),
                   !.um = @ \union {mpath},
                   !.had_entry = TRUE]

\* the second loop of update_entry_for_path(): a new entry in the first
\* Manifest of ks
CreateEntry(W, M, ks, path, new_entry_type, hashes) ==
    LET newpath == relpath_from(path, dirname(Head(ks))) IN
    IF M.exc # "none" \/ M.had_entry THEN M
    ELSE IF hashes = NoHashes THEN [M EXCEPT !.exc = "AssertionError"]
    ELSE IF ks = <<>> THEN M
    ELSE IF new_entry_type \in {"DIST", "IGNORE", "OPTIONAL"}
        THEN [M EXCEPT !.exc = "AssertionError"]
    ELSE IF new_entry_type = "AUX" /\ ~path_inside_dir(newpath, <<"files">>)
        THEN [M EXCEPT !.exc = "AssertionError"]
    ELSE Appended(M, Head(ks),
            verify_update_entry_for_path(
                FsGet(W.fs, path),
                Entry(new_entry_type,
                      IF new_entry_type = "AUX"
                      THEN relpath_from(newpath, <<"files">>) ELSE newpath,
                      0, NoSums),
                hashes, W.manifest_device))

\* the loader after update_entry_for_path(): W is the loader after the
\* Manifests were loaded, M what the two loops came to
AfterUpdate(W, M) ==
    [W EXCEPT !.loaded_manifests = M.lm, !.updated_manifests = M.um,
              !.exc = M.exc]

\* the paths of the Manifests it
ManifestPaths(it) == [i \in DOMAIN it |-> it[i].k]

\* the two loops of update_entry_for_path() over the Manifests ks
UpdateIn(W, ks, path, new_entry_type, hashes) ==
    AfterUpdate(W,
        CreateEntry(W,
            UpdateManifests(W,
                [lm |-> W.loaded_manifests, um |-> W.updated_manifests,
                 had_entry |-> FALSE, exc |-> "none"],
                ks, path, hashes),
            ks, path, new_entry_type, hashes))

\* update_entry_for_path() after load_manifests_for_path(path)
UpdateLoaded(W, path, new_entry_type, hashes) ==
    IF W.exc # "none" THEN W
    ELSE UpdateIn(W,
            ManifestPaths(iter_manifests_for_path(W.loaded_manifests, path, FALSE)),
            path, new_entry_type, hashes)

\* update_entry_for_path(path, new_entry_type, hashes), the loader having
\* been constructed with hashes=None
update_entry_for_path(W, path, new_entry_type, hashes) ==
    UpdateLoaded(load_manifests_for_path(W, path, FALSE), path, new_entry_type, hashes)

(***************************************************************************)
(* save_manifest() and save_manifests().                                   *)
(***************************************************************************)
\* mpath + '.' + compress_format
WithSuffix(mpath, compress_format) ==
    join(dirname(mpath),
         << CASE basename(mpath) = "Manifest" /\ compress_format = "gz" -> "Manifest.gz"
              [] basename(mpath) = "Manifest.files" /\ compress_format = "gz"
                    -> "Manifest.files.gz"
              [] OTHER -> "other" >>)

\* mpath[:-len(compr)-1]
WithoutSuffix(mpath) ==
    join(dirname(mpath),
         << CASE basename(mpath) = "Manifest.gz" -> "Manifest"
              [] basename(mpath) = "Manifest.files.gz" -> "Manifest.files"
              [] OTHER -> "other" >>)

\* what open_potentially_compressed_path(path, 'w') and ManifestFile.dump()
\* write for the entries
Dumped(relpath, entries, now) ==
    IF get_compressed_suffix_from_filename(relpath) # "None"
    THEN Gz(ManifestText(entries), now) ELSE ManifestText(entries)

\* the filesystem after open(path, 'w') and the writing of data: a new file
\* is on the device of its directory
Written(f, path, data) ==
    LET dev == IF FsGet(f, path).kind = "absent" THEN FsGet(f, dirname(path)).dev
               ELSE FsGet(f, path).dev
    IN [q \in DOMAIN f \union {path} |->
           IF q = path THEN File("reg", dev, data) ELSE f[q]]

\* os.unlink(path)
Unlinked(f, path) == [q \in DOMAIN f \ {path} |-> f[q]]

\* compress_watermark=None
NoWatermark == {}

Watermark(n) == {n}

\* the number of characters io.TextIOWrapper holds back before it hands
\* them to its buffer (8192 in the library, scaled to the Manifests here)
ChunkSize == 2

\* f.buffer.tell() at the end of save_manifest(), before the file is
\* closed: dump() has written the entries one by one to the text layer,
\* which passes its pending text on to f.buffer once ChunkSize are pending,
\* or, with flush_late, when the next write would exceed ChunkSize
Told(entries, flush_late) ==
    IF flush_late
    THEN IF entries = <<>> THEN 0
         ELSE ((Len(entries) - 1) \div ChunkSize) * ChunkSize
    ELSE (Len(entries) \div ChunkSize) * ChunkSize

\* V holds the loader and the locals of save_manifests(): fixed is
\* fixed_manifests, renamed is renamed_manifests (a sequence of
\* [k |-> old path, v |-> new path]) and written the paths save_manifest()
\* was called for.  save_manifest(relpath) writes the Manifest to its file.
save_manifest(V, relpath) ==
    [V EXCEPT !.fs = Written(@, relpath, Dumped(relpath, Get(V.lm, relpath), V.io.now)),
              !.written = @ \union {relpath}]

\* the rename of the Manifest mpath to new_mpath, were the Manifest to be
\* dropped from loaded_manifests with its old name
RenamedAndDropped(V, mpath, new_mpath) ==
    LET V1 == save_manifest([V EXCEPT !.lm = Put(@, new_mpath, Get(V.lm, mpath))],
                            new_mpath)
    IN [V1 EXCEPT !.lm = Del(Del(@, mpath), new_mpath),
                  !.fs = Unlinked(@, mpath),
                  !.renamed = Append(SelectSeq(@, LAMBDA x : x.k # mpath),
                                     [k |-> mpath, v |-> new_mpath])]

\* the rename of the Manifest mpath to new_mpath
Renamed(V, mpath, new_mpath) ==
    LET V1 == save_manifest([V EXCEPT !.lm = Put(@, new_mpath, Get(V.lm, mpath))],
                            new_mpath)
    IN [V1 EXCEPT !.lm = Del(@, mpath),
                  !.fs = Unlinked(@, mpath),
                  !.renamed = Append(SelectSeq(@, LAMBDA x : x.k # mpath),
                                     [k |-> mpath, v |-> new_mpath])]

\* the part of the loop body after save_manifest(mpath) returned unc_size
Recompressed(V, mpath, unc_size, compress_watermark, compress_format) ==
    LET is_compr == get_compressed_suffix_from_filename(mpath) # "None"
        is_large == \E n \in compress_watermark : unc_size >= n
    IN
    IF compress_watermark = NoWatermark \/ is_compr = is_large THEN V
    ELSE IF is_large THEN Renamed(V, mpath, WithSuffix(mpath, compress_format))
    ELSE Renamed(V, mpath, WithoutSuffix(mpath))

\* B holds the locals of the loop over the entries es of the Manifest mpath.
\* SavedEntry is the outcome of entry i, e1 being the entry after the lookup
\* in renamed_manifests and r what gemato.verify.update_entry_for_path()
\* made of it.
SavedEntry(B, i, mpath, e1, r) ==
    IF r.exc # "none" THEN [B EXCEPT !.es[i] = e1, !.exc = r.exc]
    ELSE [B EXCEPT !.es[i] = r.e,
                   !.fixed = @ \union {join(dirname(mpath), e1.path)},
                   !.um = @ \union {mpath}]

\* the entry e after "if e.path in renamed_manifests"
RenamedEntry(e, renamed) ==
    IF \E x \in Range(renamed) : x.k = e.path
    THEN [e EXCEPT !.path = (CHOOSE x \in Range(renamed) : x.k = e.path).v]
    ELSE e

\* every MANIFEST entry is updated, whether its Manifest is in
\* updated_manifests or not
SaveOneEntryAlways(f, dev, B, i, mpath, e1, hashes, force) ==
    IF B.exc # "none" \/ e1.tag # "MANIFEST" THEN B
    ELSE SavedEntry(B, i, mpath, e1,
            verify_update_entry_for_path(FsGet(f, join(dirname(mpath), e1.path)),
                                         e1, hashes, dev))

\* the body of the loop over m.entries for entry i
SaveOneEntry(f, dev, B, i, mpath, e1, hashes, force) ==
    IF B.exc # "none" \/ e1.tag # "MANIFEST" THEN B
    ELSE IF ~force /\ join(dirname(mpath), e1.path) \notin B.um
        THEN [B EXCEPT !.es[i] = e1]
    ELSE SavedEntry(B, i, mpath, e1,
            verify_update_entry_for_path(FsGet(f, join(dirname(mpath), e1.path)),
                                         e1, hashes, dev))

RECURSIVE SaveEntriesFrom(_, _, _, _, _, _, _, _)
SaveEntriesFrom(f, dev, B, i, mpath, renamed, hashes, force) ==
    IF i > Len(B.es) THEN B
    ELSE SaveEntriesFrom(f, dev,
            SaveOneEntry(f, dev, B, i, mpath,
                         IF B.es[i].tag = "MANIFEST"
                         THEN RenamedEntry(B.es[i], renamed) ELSE B.es[i],
                         hashes, force),
            i + 1, mpath, renamed, hashes, force)

\* the loop body for the Manifest mpath after its loop over the entries
\* came to B
SavedManifest(V, dev, mpath, B, force, compress_watermark, compress_format) ==
    LET V1 == [V EXCEPT !.lm = Put(@, mpath, B.es), !.um = B.um,
                        !.fixed = B.fixed, !.exc = B.exc]
    IN
    IF B.exc # "none" THEN V1
    ELSE IF force \/ mpath \in B.um
        THEN Recompressed(save_manifest(V1, mpath), mpath, Told(B.es, V.io.flush_late),
                          compress_watermark, compress_format)
    ELSE V1

RECURSIVE SaveManifestsIn(_, _, _, _, _, _, _)
\* the loop of save_manifests() over the Manifests ks
SaveManifestsIn(V, dev, ks, hashes, force, compress_watermark, compress_format) ==
    IF ks = <<>> \/ V.exc # "none" THEN V
    ELSE SaveManifestsIn(
            SavedManifest(V, dev, Head(ks),
                SaveEntriesFrom(V.fs, dev,
                    [es |-> Get(V.lm, Head(ks)), um |-> V.um, fixed |-> V.fixed,
                     exc |-> "none"],
                    1, Head(ks), V.renamed, hashes, force),
                force, compress_watermark, compress_format),
            dev, Tail(ks), hashes, force, compress_watermark, compress_format)

\* the end of save_manifests(): updated_manifests is cleared of the fixed,
\* the renamed and the top-level Manifests, and asserted to be empty
Discarded(V) ==
    LET left == V.um \ (V.fixed \union {x.k : x \in Range(V.renamed)}
                        \union {<<n>> : n \in Range(get_potential_compressed_names("Manifest"))})
    IN IF V.exc # "none" THEN V
       ELSE [V EXCEPT !.um = left,
                      !.exc = IF left # {} THEN "AssertionError" ELSE "none"]

\* the loader after save_manifests(), the paths it wrote and its
\* renamed_manifests
AfterSave(W, V) ==
    [W |-> [W EXCEPT !.fs = V.fs, !.loaded_manifests = V.lm,
                     !.updated_manifests = V.um, !.exc = V.exc],
     written |-> V.written, renamed |-> V.renamed]

\* save_manifests() after "if force: load_manifests_for_path('', True)"
SaveLoaded(W, hashes, force, compress_watermark, compress_format, io) ==
    IF W.exc # "none" THEN [W |-> W, written |-> {}, renamed |-> <<>>]
    ELSE AfterSave(W,
            Discarded(
                SaveManifestsIn(
                    [fs |-> W.fs, lm |-> W.loaded_manifests,
                     um |-> W.updated_manifests, fixed |-> {}, renamed |-> <<>>,
                     written |-> {}, io |-> io, exc |-> "none"],
                    W.manifest_device,
                    ManifestPaths(iter_manifests_for_path(W.loaded_manifests, <<>>, TRUE)),
                    hashes, force, compress_watermark, compress_format)))

\* save_manifests(hashes, force, sort=False, compress_watermark,
\* compress_format), the loader having been constructed with hashes=None;
\* io is what the libraries do during the call: io.flush_late is the text
\* layer's way of flushing (see Told), io.now the time gzip stamps (see Gz)
save_manifests(W, hashes, force, compress_watermark, compress_format, io) ==
    SaveLoaded(IF force THEN load_manifests_for_path(W, <<>>, TRUE) ELSE W,
               hashes, force, compress_watermark, compress_format, io)

(***************************************************************************)
(* get_deduplicated_file_entry_dict_for_update().  D holds the loader's    *)
(* Manifests and the locals of the call: out maps a path to the Manifest   *)
(* and the index of the entry kept for it, rm holds the indices of         *)
(* entries_to_remove in the Manifest being gone through.                   *)
(***************************************************************************)
\* dict(a).update(b), were the values of a to win on the shared keys
ChecksumsAdded(a, b) ==
    [h \in DOMAIN a \union DOMAIN b |-> IF h \in DOMAIN a THEN a[h] ELSE b[h]]

\* dict(a).update(b)
ChecksumsUpdated(a, b) ==
    [h \in DOMAIN a \union DOMAIN b |-> IF h \in DOMAIN b THEN b[h] ELSE a[h]]

\* out[fullpath]
OutGet(out, fullpath) == out[CHOOSE i \in DOMAIN out : out[i].k = fullpath]

\* the entry that out refers to with o
KeptEntry(lm, o) == Get(lm, o.mpath)[o.idx]

\* entry i of the Manifest mpath is a duplicate of the entry o refers to: c
\* is what verify_entry_compatibility() returned for the two
Deduped(D, mpath, i, o, c) ==
    IF c.exc # "none" THEN [D EXCEPT !.exc = c.exc]
    ELSE IF ~c.ok /\ c.diff[1][1] = "__type__"
        THEN [D EXCEPT !.exc = "ManifestIncompatibleEntry"]
    ELSE [D EXCEPT
            !.lm = Put(@, o.mpath,
                       [Get(@, o.mpath) EXCEPT ![o.idx].checksums =
                           ChecksumsUpdated(@, Get(D.lm, mpath)[i].checksums)]),
            !.rm = @ \union {i}]

\* the body of the loop over m.entries for entry i of the Manifest mpath
DedupOneEntry(D, mpath, i, path) ==
    LET e == Get(D.lm, mpath)[i]
        fullpath == join(dirname(mpath), e.path)
    IN
    IF D.exc # "none" \/ e.tag \in {"DIST", "TIMESTAMP"} THEN D
    ELSE IF ~path_starts_with(fullpath, path) THEN D
    ELSE IF fullpath \in {D.out[k].k : k \in DOMAIN D.out}
        THEN Deduped(D, mpath, i, OutGet(D.out, fullpath),
                     verify_entry_compatibility(
                         KeptEntry(D.lm, OutGet(D.out, fullpath)), e))
    ELSE [D EXCEPT !.out = Append(@, [k |-> fullpath, mpath |-> mpath, idx |-> i])]

RECURSIVE DedupEntriesFrom(_, _, _, _)
DedupEntriesFrom(D, mpath, i, path) ==
    IF i > Len(Get(D.lm, mpath)) THEN D
    ELSE DedupEntriesFrom(DedupOneEntry(D, mpath, i, path), mpath, i + 1, path)

\* the end of the loop body for the Manifest mpath: the entries to remove
\* are removed, and out keeps referring to the entries it kept
DedupedManifest(D, mpath) ==
    IF D.exc # "none" \/ D.rm = {} THEN D
    ELSE [D EXCEPT
            !.lm = Put(@, mpath, Without(Get(@, mpath), D.rm)),
            !.um = @ \union {mpath},
            !.out = [k \in DOMAIN @ |->
                        IF @[k].mpath = mpath
                        THEN [@[k] EXCEPT !.idx =
                                @ - Cardinality({r \in D.rm : r < @})]
                        ELSE @[k]],
            !.rm = {}]

RECURSIVE DedupManifests(_, _, _)
\* the loop over the Manifests ks
DedupManifests(D, ks, path) ==
    IF ks = <<>> \/ D.exc # "none" THEN D
    ELSE DedupManifests(
            DedupedManifest(DedupEntriesFrom(D, Head(ks), 1, path), Head(ks)),
            Tail(ks), path)

\* the loader after the call, the returned dict (a sequence of
\* [k |-> path, mpath |-> manifest path, e |-> entry]) and the Manifests as
\* they were loaded when the loop started
AfterDedup(W, D) ==
    [W |-> [W EXCEPT !.loaded_manifests = D.lm, !.updated_manifests = D.um,
                     !.exc = D.exc],
     ret |-> IF D.exc # "none" THEN <<>>
             ELSE [k \in DOMAIN D.out |->
                      [k |-> D.out[k].k, mpath |-> D.out[k].mpath,
                       idx |-> D.out[k].idx,
                       e |-> KeptEntry(D.lm, D.out[k])]],
     loaded |-> W.loaded_manifests]

\* the call after load_manifests_for_path(path, recursive=True)
DedupLoaded(W, path) ==
    IF W.exc # "none" THEN [W |-> W, ret |-> <<>>, loaded |-> W.loaded_manifests]
    ELSE AfterDedup(W,
            DedupManifests(
                [lm |-> W.loaded_manifests, um |-> W.updated_manifests,
                 out |-> <<>>, rm |-> {}, exc |-> "none"],
                ManifestPaths(iter_manifests_for_path(W.loaded_manifests, path, TRUE)),
                path))

\* get_deduplicated_file_entry_dict_for_update(path)
get_deduplicated_file_entry_dict_for_update(W, path) ==
    DedupLoaded(load_manifests_for_path(W, path, TRUE), path)

(***************************************************************************)
(* create_manifest(), load_unregistered_manifests() and                    *)
(* update_entries_for_directory().  L and U hold the loader W and the      *)
(* locals of the two walks; the entries of entry_dict are referred to by   *)
(* the Manifest and the index they have there, and idx is left in the      *)
(* dict returned by get_deduplicated_file_entry_dict_for_update().         *)
(***************************************************************************)
\* create_manifest(path)
create_manifest(W, path) == load_manifest(W, path, None, TRUE)

\* the body of the loop over dirnames for the directory name d
UnregDirname(L, relpath, d) ==
    LET dpath == join(relpath, <<d>>) IN
    IF L.W.exc # "none" THEN L
    ELSE IF StartsWithDot(d) THEN [L EXCEPT !.skip_dirs = @ \union {d}]
    ELSE IF dpath \notin DKeys(L.entry_dict)
        THEN IF FsGet(L.W.fs, dpath).dev # L.W.manifest_device
             THEN [L EXCEPT !.W = Raise(@, "ManifestCrossDevice")]
             ELSE L
    ELSE [L EXCEPT !.entry_dict = DPop(@, dpath), !.skip_dirs = @ \union {d}]

RECURSIVE UnregDirnames(_, _, _)
UnregDirnames(L, relpath, ds) ==
    IF ds = <<>> THEN L
    ELSE UnregDirnames(UnregDirname(L, relpath, Head(ds)), relpath, Tail(ds))

\* the try statement around load_manifest(fpath): W2 is the loader after the
\* call
UnregLoaded(L, fpath, W2) ==
    IF W2.exc = "ManifestSyntaxError" THEN L
    ELSE IF W2.exc # "none" THEN [L EXCEPT !.W = W2]
    ELSE [L EXCEPT !.W = W2, !.new_manifests = Append(@, fpath)]

\* the body of the loop over manifest_filenames for the name mname
UnregManifest(L, relpath, fnames, mname) ==
    LET fpath == join(relpath, <<mname>>) IN
    IF L.W.exc # "none" \/ mname \notin Range(fnames)
       \/ fpath \in Keys(L.W.loaded_manifests)
    THEN L
    ELSE UnregLoaded(L, fpath, load_manifest(L.W, fpath, None, FALSE))

RECURSIVE UnregManifests(_, _, _, _)
UnregManifests(L, relpath, fnames, mnames) ==
    IF mnames = <<>> THEN L
    ELSE UnregManifests(UnregManifest(L, relpath, fnames, Head(mnames)),
                        relpath, fnames, Tail(mnames))

RECURSIVE UnregWalk(_, _, _)
RECURSIVE UnregWalkInto(_, _, _, _)
\* the walk of directory relpath after the loop over its dirnames has come
\* to L1
UnregWalkRest(L1, relpath, order) ==
    UnregWalkInto(
        UnregManifests(L1, relpath, Nondirs(L1.W.fs, relpath, order),
                       get_potential_compressed_names("Manifest")),
        relpath,
        SelectSeq(Subdirs(L1.W.fs, relpath, order), LAMBDA n : n \notin L1.skip_dirs),
        order)

\* os.walk(relpath, followlinks=True) with the body of the loop of
\* load_unregistered_manifests()
UnregWalk(L, relpath, order) ==
    IF L.W.exc # "none" THEN L
    ELSE UnregWalkRest(
            UnregDirnames([L EXCEPT !.skip_dirs = {}], relpath,
                          Subdirs(L.W.fs, relpath, order)),
            relpath, order)

UnregWalkInto(L, relpath, ds, order) ==
    IF ds = <<>> THEN L
    ELSE UnregWalkInto(UnregWalk(L, join(relpath, <<Head(ds)>>), order),
                       relpath, Tail(ds), order)

\* load_unregistered_manifests() after its call of get_file_entry_dict():
\* the loader and the list it returns
UnregScan(g, path, order) ==
    IF g.W.exc # "none" THEN [W |-> g.W, ret |-> <<>>]
    ELSE IF FsGet(g.W.fs, path).kind # "dir"
        THEN [W |-> Raise(g.W, "OSError"), ret |-> <<>>]
    ELSE LET L == UnregWalk([W |-> g.W, entry_dict |-> g.ret,
                             new_manifests |-> <<>>, skip_dirs |-> {}],
                            path, order)
         IN [W |-> L.W, ret |-> IF L.W.exc = "none" THEN L.new_manifests ELSE <<>>]

\* load_unregistered_manifests(path), the directories being listed in the
\* given order of names
load_unregistered_manifests(W, path, order) ==
    UnregScan(get_file_entry_dict(W, path, {"IGNORE"}), path, order)

\* gemato.profile.DefaultProfile.get_entry_type_for_path(path)
get_entry_type_for_path(path) == "DATA"

\* entry_dict.pop(k, (None, None)) of update_entries_for_directory(): the
\* item of the key k
ItemOf(d, k) == d[CHOOSE i \in DOMAIN d : d[i].k = k]

\* the body of the loop over dirnames for the directory name d
UpdateDirname(U, relpath, d, hashes) ==
    LET dpath == join(relpath, <<d>>) IN
    IF U.W.exc # "none" THEN U
    ELSE IF StartsWithDot(d) THEN [U EXCEPT !.skip_dirs = @ \union {d}]
    ELSE IF dpath \notin DKeys(U.entry_dict)
        THEN IF FsGet(U.W.fs, dpath).dev # U.W.manifest_device
             THEN [U EXCEPT !.W = Raise(@, "ManifestCrossDevice")]
             ELSE U
    ELSE IF ItemOf(U.entry_dict, dpath).e.tag = "IGNORE"
        THEN [U EXCEPT !.entry_dict = DPop(@, dpath), !.skip_dirs = @ \union {d}]
    ELSE LET r == verify_update_entry_for_path(
                      FsGet(U.W.fs, dpath), ItemOf(U.entry_dict, dpath).e,
                      hashes, U.W.manifest_device)
         IN [U EXCEPT !.entry_dict = DPop(@, dpath),
                      !.W = Raise(@, IF r.exc # "none" THEN r.exc
                                     ELSE "AssertionError")]

RECURSIVE UpdateDirnames(_, _, _, _)
UpdateDirnames(U, relpath, ds, hashes) ==
    IF ds = <<>> THEN U
    ELSE UpdateDirnames(UpdateDirname(U, relpath, Head(ds), hashes),
                        relpath, Tail(ds), hashes)

\* the call of gemato.verify.update_entry_for_path() for the entry x of
\* entry_dict: r is what it came to
ExistingUpdated(U, x, r) ==
    IF r.exc # "none" THEN [U EXCEPT !.W = Raise(@, r.exc)]
    ELSE IF r.e = Get(U.W.loaded_manifests, x.mpath)[x.idx] THEN U
    ELSE [U EXCEPT
            !.W.loaded_manifests =
                Put(@, x.mpath, [Get(@, x.mpath) EXCEPT ![x.idx] = r.e]),
            !.W.updated_manifests = @ \union {x.mpath}]

UpdateExisting(U, x, fpath, hashes) ==
    ExistingUpdated(U, x,
        verify_update_entry_for_path(
            FsGet(U.W.fs, fpath), Get(U.W.loaded_manifests, x.mpath)[x.idx],
            hashes, U.W.manifest_device))

\* the file fpath has the entry x in entry_dict
UpdateKnownFile(U, relpath, fpath, x, hashes) ==
    IF x.e.tag \in {"IGNORE", "OPTIONAL"} THEN U
    ELSE IF x.e.tag = "MANIFEST"
        THEN IF fpath \notin Keys(U.W.loaded_manifests)
             THEN [U EXCEPT !.W = Raise(@, "KeyError")]
             ELSE IF relpath \in U.W.updated_manifests
                 THEN [U EXCEPT !.stack = Append(@, [mpath |-> fpath, dir |-> relpath])]
             ELSE UpdateExisting(
                     [U EXCEPT !.stack = Append(@, [mpath |-> fpath, dir |-> relpath])],
                     x, fpath, hashes)
    ELSE UpdateExisting(U, x, fpath, hashes)

\* the new entry fe was appended to new_entries, and
\* gemato.verify.update_entry_for_path() made r of it
NewEntryUpdated(U, r) ==
    IF r.exc # "none" THEN [U EXCEPT !.W = Raise(@, r.exc)]
    ELSE [U EXCEPT !.new_entries = Append(@, r.e)]

\* the file fpath has no entry in entry_dict and is to get one of type ftype
UpdateNewFile(U, relpath, fpath, ftype, hashes) ==
    LET fe == Entry(ftype, fpath, 0, NoSums)
        U1 == [U EXCEPT !.ftype = ftype,
                        !.stack = IF ftype = "MANIFEST"
                                  THEN Append(@, [mpath |-> fpath, dir |-> relpath])
                                  ELSE @]
    IN
    IF relpath \in U.W.updated_manifests
    THEN [U1 EXCEPT !.new_entries = Append(@, fe)]
    ELSE NewEntryUpdated(U1,
            verify_update_entry_for_path(FsGet(U.W.fs, fpath), fe, hashes,
                                         U.W.manifest_device))

\* the body of the loop over filenames for the name f
UpdateFilename(U, relpath, f, hashes) ==
    LET fpath == join(relpath, <<f>>) IN
    IF U.W.exc # "none" \/ StartsWithDot(f) THEN U
    ELSE IF fpath \in DKeys(U.entry_dict)
        THEN UpdateKnownFile([U EXCEPT !.entry_dict = DPop(@, fpath)],
                             relpath, fpath, ItemOf(U.entry_dict, fpath), hashes)
    ELSE IF \E n \in Range(get_potential_compressed_names("Manifest")) : fpath = <<n>>
        THEN U
    ELSE UpdateNewFile(U, relpath, fpath,
                       IF fpath \in Range(U.new_manifests) THEN "MANIFEST"
                       ELSE get_entry_type_for_path(fpath),
                       hashes)

RECURSIVE UpdateFilenames(_, _, _, _)
UpdateFilenames(U, relpath, fnames, hashes) ==
    IF fnames = <<>> THEN U
    ELSE UpdateFilenames(UpdateFilename(U, relpath, Head(fnames), hashes),
                         relpath, Tail(fnames), hashes)

\* "do we have Manifest in this directory?": W2 is the loader after
\* create_manifest(mpath)
ManifestCreated(U, relpath, mpath, W2) ==
    IF W2.exc # "none" THEN [U EXCEPT !.W = W2]
    ELSE [U EXCEPT !.W = W2,
                   !.stack = Append(@, [mpath |-> mpath, dir |-> relpath]),
                   !.new_entries = Append(@, Entry("MANIFEST", mpath, 0, NoSums))]

WantedManifest(U, relpath, want_manifest) ==
    IF U.W.exc # "none" THEN U
    ELSE IF want_manifest /\ U.stack[Len(U.stack)].dir # relpath
        THEN ManifestCreated(U, relpath, join(relpath, <<"Manifest">>),
                             create_manifest(U.W, join(relpath, <<"Manifest">>)))
    ELSE U

RECURSIVE LevelUp(_, _, _)
\* "Manifest needs to go level up": the index in manifest_stack of the
\* Manifest that gets the MANIFEST entry fe, 0 when the stack is exhausted
LevelUp(stack, i, fe) ==
    IF i = 0 THEN 0
    ELSE IF stack[i].dir = dirname(fe.path) THEN LevelUp(stack, i - 1, fe)
    ELSE i

\* the new entry fe goes into the Manifest mm of directory mmdirpath
EntryAdded(U, fe, mm, mmdirpath) ==
    [U EXCEPT !.W.loaded_manifests =
                  Put(@, mm, Append(Get(@, mm),
                                    [fe EXCEPT !.path = relpath_from(@, mmdirpath)])),
              !.W.updated_manifests =
                  IF fe.tag = "MANIFEST" THEN @ \union {mm} ELSE @]

\* the body of the loop over new_entries for the entry fe; the entries of
\* the default profile are never AUX
AddNewEntry(U, fe) ==
    LET top == U.stack[Len(U.stack)]
        i == LevelUp(U.stack, Len(U.stack), fe)
    IN
    IF U.W.exc # "none" THEN U
    ELSE IF fe.tag = "MANIFEST"
        THEN IF i = 0 THEN [U EXCEPT !.W = Raise(@, "IndexError")]
             ELSE EntryAdded(U, fe, U.stack[i].mpath, U.stack[i].dir)
    ELSE EntryAdded(U, fe, top.mpath, top.dir)

RECURSIVE AddNewEntries(_, _)
AddNewEntries(U, es) ==
    IF es = <<>> THEN U
    ELSE AddNewEntries(AddNewEntry(U, Head(es)), Tail(es))

\* "if new_entries:" at the end of the loop body
NewEntriesAdded(U) ==
    IF U.W.exc # "none" \/ U.new_entries = <<>> THEN U
    ELSE LET U1 == AddNewEntries(U, U.new_entries) IN
         IF U1.W.exc # "none" THEN U1
         ELSE [U1 EXCEPT !.W.updated_manifests =
                             @ \union {U.stack[Len(U.stack)].mpath}]

RECURSIVE Popped(_, _)
\* "drop Manifest paths until we get to a common directory"
Popped(stack, relpath) ==
    IF stack = <<>> \/ path_starts_with(relpath, stack[Len(stack)].dir) THEN stack
    ELSE Popped(SubSeq(stack, 1, Len(stack) - 1), relpath)

RECURSIVE UpdateWalk(_, _, _, _, _)
RECURSIVE UpdateWalkInto(_, _, _, _, _, _)
\* the walk of directory relpath after the loop over its dirnames has come
\* to U1
UpdateWalkRest(U1, relpath, hashes, want, order) ==
    UpdateWalkInto(
        NewEntriesAdded(
            WantedManifest(
                UpdateFilenames(U1, relpath, Nondirs(U1.W.fs, relpath, order), hashes),
                relpath, relpath \in want)),
        relpath,
        SelectSeq(Subdirs(U1.W.fs, relpath, order), LAMBDA n : n \notin U1.skip_dirs),
        hashes, want, order)

\* os.walk(relpath, followlinks=True) with the body of the loop of
\* update_entries_for_directory(); want is the set of the directories for
\* which profile.want_manifest_in_directory() is true
UpdateWalk(U, relpath, hashes, want, order) ==
    IF U.W.exc # "none" THEN U
    ELSE IF Popped(U.stack, relpath) = <<>>
        THEN [U EXCEPT !.W = Raise(@, "IndexError")]
    ELSE UpdateWalkRest(
            UpdateDirnames([U EXCEPT !.stack = Popped(@, relpath),
                                     !.skip_dirs = {}, !.new_entries = <<>>],
                           relpath, Subdirs(U.W.fs, relpath, order), hashes),
            relpath, hashes, want, order)

UpdateWalkInto(U, relpath, ds, hashes, want, order) ==
    IF ds = <<>> THEN U
    ELSE UpdateWalkInto(
            UpdateWalk(U, join(relpath, <<Head(ds)>>), hashes, want, order),
            relpath, Tail(ds), hashes, want, order)

\* "check for removed files": the Manifests lose the entries that are left
\* in entry_dict, except the IGNORE and OPTIONAL ones
RemovedLeft(U) ==
    LET left == {i \in DOMAIN U.entry_dict :
                    U.entry_dict[i].e.tag \notin {"IGNORE", "OPTIONAL"}}
        owners == {U.entry_dict[i].mpath : i \in left}
        lm == U.W.loaded_manifests
    IN
    IF U.W.exc # "none" THEN U.W
    ELSE [U.W EXCEPT
            !.loaded_manifests =
                [n \in DOMAIN lm |->
                    [k |-> lm[n].k,
                     m |-> Without(lm[n].m,
                                   {U.entry_dict[i].idx :
                                       i \in {l \in left :
                                                 U.entry_dict[l].mpath = lm[n].k}})]],
            !.updated_manifests = @ \union owners]

\* the first Manifest of _iter_manifests_for_path(path) is the bottom of
\* manifest_stack
FirstOnStack(lm, path) ==
    LET it == iter_manifests_for_path(lm, path, FALSE) IN
    IF it = <<>> THEN <<>> ELSE <<[mpath |-> it[1].k, dir |-> dirname(it[1].k)]>>

\* update_entries_for_directory() after its call of
\* get_deduplicated_file_entry_dict_for_update(): d is what that returned,
\* new_manifests what load_unregistered_manifests() returned
UpdateTree(d, new_manifests, path, hashes, want, order) ==
    IF d.W.exc # "none" THEN d.W
    ELSE IF FsGet(d.W.fs, path).kind # "dir" THEN Raise(d.W, "OSError")
    ELSE RemovedLeft(
            UpdateWalk([W |-> d.W, entry_dict |-> d.ret,
                        stack |-> FirstOnStack(d.W.loaded_manifests, path),
                        new_manifests |-> new_manifests,
                        skip_dirs |-> {}, new_entries |-> <<>>, ftype |-> "None"],
                       path, hashes, want, order))

\* update_entries_for_directory() after its call of
\* load_unregistered_manifests(), which came to u
UpdateScanned(u, path, hashes, want, order) ==
    IF u.W.exc # "none" THEN u.W
    ELSE UpdateTree(get_deduplicated_file_entry_dict_for_update(u.W, path),
                    u.ret, path, hashes, want, order)

\* update_entries_for_directory(path, hashes), the loader having been
\* constructed with hashes=None
update_entries_for_directory(W, path, hashes, want, order) ==
    IF hashes = NoHashes THEN Raise(W, "AssertionError")
    ELSE UpdateScanned(load_unregistered_manifests(W, path, order),
                       path, hashes, want, order)

(***************************************************************************)
(* gemato/compression.py on file names as strings.  A string is a sequence *)
(* of the characters "/" and "." and of words that hold neither; a stream  *)
(* is [kind, state, at], state being "open", "closed" or "failed" (its     *)
(* close() raised) and at the position of its close() among the calls of   *)
(* FileStack.close().                                                      *)
(***************************************************************************)
\* s.rfind(c), counted from 1: 0 when c is not in s
rfind(s, c) == Max({0} \union {i \in DOMAIN s : s[i] = c})

\* os.path.splitext(s): the extension starts at the last dot of the last
\* component, leading dots of the component apart
splitext(s) ==
    LET sepIndex == rfind(s, "/")
        dotIndex == rfind(s, ".")
    IN IF dotIndex > sepIndex /\ \E i \in (sepIndex + 1)..(dotIndex - 1) : s[i] # "."
       THEN [base |-> SubSeq(s, 1, dotIndex - 1), ext |-> SubSeq(s, dotIndex, Len(s))]
       ELSE [base |-> s, ext |-> <<>>]

\* the extensions of the supported compressions
KnownExts == {<<".", "gz">>, <<".", "bz2">>, <<".", "lzma">>, <<".", "xz">>}

\* get_compressed_suffix_from_filename(path) were it to return the
\* extension of every name that has one
get_compressed_suffix_of_any(s) ==
    IF Len(splitext(s).ext) = 2 THEN splitext(s).ext[2]
    ELSE IF splitext(s).ext = <<>> THEN "None" ELSE "other"

\* get_compressed_suffix_from_filename(path) for the string s
get_compressed_suffix_from_name(s) ==
    IF splitext(s).ext \in KnownExts THEN splitext(s).ext[2] ELSE "None"

Stream(kind) == [kind |-> kind, state |-> "open", at |-> 0]

\* open_compressed_file(suffix, f, mode): the stream, or the exception;
\* bz2 and lzma tell whether the modules could be imported
open_compressed_file(suffix, bz2, lzma) ==
    IF suffix = "gz" THEN [exc |-> "none", cf |-> Stream("GzipFile")]
    ELSE IF suffix = "bz2" /\ bz2 THEN [exc |-> "none", cf |-> Stream("BZ2File")]
    ELSE IF suffix = "lzma" /\ lzma THEN [exc |-> "none", cf |-> Stream("LZMAFile-alone")]
    ELSE IF suffix = "xz" /\ lzma THEN [exc |-> "none", cf |-> Stream("LZMAFile-xz")]
    ELSE [exc |-> "UnsupportedCompression", cf |-> Stream("none")]

RECURSIVE CloseFrom(_, _, _)
\* the loop of FileStack.close() from stream i down; fail is the index of
\* the stream whose close() raises, 0 when none does
CloseFrom(fl, i, fail) ==
    IF i = 0 THEN [files |-> fl, exc |-> "none"]
    ELSE IF i = fail
        THEN [files |-> [fl EXCEPT ![i].state = "failed", ![i].at = Len(fl) - i + 1],
              exc |-> "IOError"]
    ELSE CloseFrom([fl EXCEPT ![i].state = "closed", ![i].at = Len(fl) - i + 1],
                   i - 1, fail)

\* FileStack.close()
close(fl, fail) == CloseFrom(fl, Len(fl), fail)

\* the except clause of open_potentially_compressed_path(): fs.close(),
\* then the exception is raised again, unless close() raised another
Reraised(c, exc) ==
    [exc |-> IF c.exc # "none" THEN c.exc ELSE exc, files |-> c.files]

\* the try block of open_potentially_compressed_path(): cf is what
\* open_compressed_file() came to, wrap_fails tells whether io.TextIOWrapper()
\* raises
Stacked(cf, mode, wrap_fails, fail) ==
    IF cf.exc # "none" THEN Reraised(close(<<Stream("file")>>, fail), cf.exc)
    ELSE IF mode \in {"rb", "wb"}
        THEN [exc |-> "none", files |-> <<Stream("file"), cf.cf>>]
    ELSE IF wrap_fails
        THEN Reraised(close(<<Stream("file"), cf.cf>>, fail), "LookupError")
    ELSE [exc |-> "none", files |-> <<Stream("file"), cf.cf, Stream("TextIOWrapper")>>]

\* open_potentially_compressed_path(path, mode, **kwargs): the exception and
\* the streams that were made; kwargs tells whether there are any, and env
\* what the modules and the streams do
open_potentially_compressed_path(path, mode, kwargs, env) ==
    IF get_compressed_suffix_from_name(path) = "None"
    THEN IF kwargs /\ mode \in {"rb", "wb"}
         THEN [exc |-> "ValueError", files |-> <<>>]
         ELSE [exc |-> "none", files |-> <<Stream("file")>>]
    ELSE Stacked(open_compressed_file(get_compressed_suffix_from_name(path),
                                      env.bz2, env.lzma),
                 mode, env.wrap_fails, env.fail)

(***************************************************************************)
(* The loader as a state machine.                                          *)
(***************************************************************************)
CurWorld == World(fs, loaded_manifests, updated_manifests, manifest_device)

\* the loader's attributes and the filesystem become those of W
Becomes(W) ==
    /\ fs' = W.fs
    /\ loaded_manifests' = W.loaded_manifests
    /\ updated_manifests' = W.updated_manifests
    /\ manifest_device' = W.manifest_device
    /\ UNCHANGED files

TopManifest == <<"Manifest">>

\* __init__(top_manifest_path): the state after loading the top-level
\* Manifest of the tree f
Constructed(f) ==
    load_manifest(World(f, <<>>, {}, NoDev), TopManifest, None, FALSE)

InitFrom(f) ==
    LET W == Constructed(f) IN
    /\ W.exc = "none"
    /\ fs = W.fs
    /\ loaded_manifests = W.loaded_manifests
    /\ updated_manifests = W.updated_manifests
    /\ manifest_device = W.manifest_device
    /\ files = <<>>
    /\ op = [name |-> "init"]

(***************************************************************************)
(* Single-entry queries: a tree with a top-level Manifest and a Manifest   *)
(* in directory a, and find_path_entry() on the paths of the tree.         *)
(***************************************************************************)
SubManifest == <<"a", "Manifest">>

\* a tree on one device with the given texts of Manifest and a/Manifest
FindTree(root, sub) ==
    (<<>> :> Dir(1)) @@ (<<"a">> :> Dir(1))
    @@ (TopManifest :> File("reg", 1, ManifestText(root)))
    @@ (SubManifest :> File("reg", 1, ManifestText(sub)))
    @@ (<<"x">> :> File("reg", 1, Bytes(<<1>>)))
    @@ (<<"a", "x">> :> File("reg", 1, Bytes(<<2>>)))

\* the entries the top-level Manifest is drawn from
FindRootPool(sub) ==
    { EntryFor("MANIFEST", SubManifest, {"SHA256"}, ManifestText(sub)),
      IGNORE(<<"a">>),
      EntryFor("DATA", <<"a", "x">>, {"SHA256"}, Bytes(<<2>>)),
      EntryFor("DIST", <<"x">>, {"SHA256"}, Bytes(<<1>>)),
      EntryFor("MISC", <<"x">>, {"SHA256"}, Bytes(<<1>>)) }

\* the entries a/Manifest is drawn from
FindSubPool ==
    { EntryFor("DATA", <<"x">>, {"BLAKE2B"}, Bytes(<<2>>)),
      EntryFor("OPTIONAL", <<"x">>, {}, Bytes(<<>>)),
      IGNORE(<<"x">>),
      TIMESTAMP }

QueryPaths == {<<"x">>, <<"a">>, <<"a", "x">>, <<"a", "y">>}

InitFind ==
    \E sub \in SeqsUpTo(FindSubPool, MaxEntries) :
        \E root \in SeqsUpTo(FindRootPool(sub), MaxEntries) :
            InitFrom(FindTree(root, sub))

FindPathEntry ==
    \E path \in QueryPaths :
        LET r == find_path_entry(CurWorld, path) IN
        /\ Becomes(r.W)
        /\ op' = [name |-> "find_path_entry", path |-> path, exc |-> r.W.exc,
                  ret |-> r.ret, from |-> r.from]

NextFind == FindPathEntry

SpecFind == InitFind /\ [][NextFind]_vars

(***************************************************************************)
(* Claims on find_path_entry().                                            *)
(***************************************************************************)
\* the loaded Manifests whose directory is a prefix of path
ApplicableTo(path) ==
    {i \in DOMAIN loaded_manifests :
        path_starts_with(path, dirname(loaded_manifests[i].k))}

\* the positions in loaded Manifest i of the file entries composed to path
EntriesFor(i, path) ==
    LET x == loaded_manifests[i] IN
    {j \in DOMAIN x.m :
        /\ x.m[j].tag \notin {"IGNORE", "DIST", "TIMESTAMP"}
        /\ join(dirname(x.k), x.m[j].path) = path}

\* some applicable Manifest holds an IGNORE entry for path or a directory
\* above it
IgnoreCovers(path) ==
    \E i \in ApplicableTo(path) :
        \E j \in DOMAIN loaded_manifests[i].m :
            LET e == loaded_manifests[i].m[j] IN
            /\ e.tag = "IGNORE"
            /\ path_starts_with(path, join(dirname(loaded_manifests[i].k), e.path))

\* C1: for a path that no IGNORE entry covers, find_path_entry returns an
\* entry composed to the path from a Manifest whose directory is the longest
\* among the applicable Manifests holding such an entry, None when there is
\* no such Manifest, and never a DIST or TIMESTAMP entry.
C1_FindDeepest ==
    (op.name = "find_path_entry" /\ op.exc = "none" /\ ~IgnoreCovers(op.path)) =>
        LET holders == {i \in ApplicableTo(op.path) : EntriesFor(i, op.path) # {}} IN
        /\ op.ret.tag \notin {"DIST", "TIMESTAMP"}
        /\ IF holders = {} THEN IsNone(op.ret)
           ELSE \E i \in holders :
                  /\ \A h \in holders :
                        Len(dirname(loaded_manifests[h].k))
                            <= Len(dirname(loaded_manifests[i].k))
                  /\ op.from = loaded_manifests[i].k
                  /\ \E j \in EntriesFor(i, op.path) :
                        loaded_manifests[i].m[j] = op.ret

\* a query of a/x answered from a/Manifest although the top-level Manifest
\* holds an entry for a/x too
C1_Witness ==
    /\ op.name = "find_path_entry" /\ op.exc = "none"
    /\ op.path = <<"a", "x">>
    /\ ~IgnoreCovers(op.path)
    /\ op.from = SubManifest
    /\ \E i \in ApplicableTo(op.path) :
          loaded_manifests[i].k = TopManifest /\ EntriesFor(i, op.path) # {}

\* C2: whenever an applicable Manifest holds an IGNORE entry for the path or
\* a directory above it, find_path_entry returns an IGNORE entry.
C2_IgnoreWins ==
    (op.name = "find_path_entry" /\ op.exc = "none" /\ IgnoreCovers(op.path)) =>
        op.ret.tag = "IGNORE"

(***************************************************************************)
(* verify_path() on its own: one file, chosen among the kinds of file the  *)
(* function tells apart, verified against every entry of a small pool      *)
(* with and without an expected device.                                    *)
(***************************************************************************)
ThePath == <<"x">>

VerifyContents == {Bytes(<<>>), Bytes(<<1>>), Bytes(<<2>>), Bytes(<<1, 1>>)}

VerifyFiles ==
    {Absent}
    \union {[File(k, d, c) EXCEPT !.zero = z] :
                k \in {"reg"}, d \in {1, 2}, c \in VerifyContents, z \in BOOLEAN}
    \union {[File(k, d, Bytes(<<>>)) EXCEPT !.enxio = x] :
                k \in {"dir", "fifo", "sock", "reg"}, d \in {1, 2}, x \in {TRUE}}
    \union {File(k, d, Bytes(<<>>)) : k \in {"dir", "fifo", "chr"}, d \in {1, 2}}

VerifyEntries ==
    {None, IGNORE(ThePath)}
    \union {EntryFor(t, ThePath, hs, c) :
                t \in {"DATA", "MISC", "OPTIONAL"},
                hs \in {{}, {"SHA256"}, Hashes},
                c \in {Bytes(<<1>>), Bytes(<<1, 1>>)}}

InitVerify ==
    \E f \in VerifyFiles :
        /\ fs = (ThePath :> f)
        /\ loaded_manifests = <<>>
        /\ updated_manifests = {}
        /\ manifest_device = NoDev
        /\ files = <<>>
        /\ op = [name |-> "init"]

\* gemato.verify.verify_path(path, e, expected_dev)
VerifyPathCall ==
    \E e \in VerifyEntries, dev \in {NoDev, 1, 2} :
        /\ op' = [name |-> "verify_path", path |-> ThePath, e |-> e,
                  expected_dev |-> dev, res |-> VerifyPath(fs[ThePath], e, dev)]
        /\ UNCHANGED <<fs, loaded_manifests, updated_manifests, manifest_device, files>>

NextVerify == VerifyPathCall

SpecVerify == InitVerify /\ [][NextVerify]_vars

\* verify_path was called on an existing file that is not on the expected
\* device
ForeignDevice ==
    /\ op.name = "verify_path"
    /\ fs[op.path].kind # "absent"
    /\ op.expected_dev # NoDev
    /\ fs[op.path].dev # op.expected_dev

\* C5 as stated: verify_path raises ManifestCrossDevice for every existing
\* file on another device than expected_dev, for every kind of expected
\* entry (IGNORE and no entry included).
C5_AlwaysCrossDevice ==
    ForeignDevice => op.res.exc = "ManifestCrossDevice"

\* C5, amended: for an existing file on another device than expected_dev,
\* verify_path raises ManifestCrossDevice when the entry expects the file to
\* exist (any entry but IGNORE and OPTIONAL), whatever its type, size and
\* hashes; for an IGNORE entry it returns (True, []), and for an OPTIONAL
\* entry or no entry it returns the existence mismatch.
C5_CrossDevice ==
    ForeignDevice =>
        IF IsNone(op.e) \/ op.e.tag = "OPTIONAL"
        THEN op.res = Returned(FALSE, << <<"__exists__", FALSE, TRUE>> >>)
        ELSE IF op.e.tag = "IGNORE" THEN op.res = Returned(TRUE, <<>>)
        ELSE op.res = Raised("ManifestCrossDevice")

\* a file matching its DATA entry in size and hashes, on a foreign device
C5_Witness ==
    /\ ForeignDevice
    /\ op.e.tag = "DATA"
    /\ fs[op.path].kind = "reg"
    /\ op.e = EntryFor("DATA", ThePath, Hashes, fs[op.path].data)
    /\ op.res.exc = "ManifestCrossDevice"

(***************************************************************************)
(* get_file_entry_dict() on a tree of three nested Manifests (top-level,   *)
(* a/Manifest, a/b/Manifest) that may all describe the file a/b/x.         *)
(***************************************************************************)
DeepManifest == <<"a", "b", "Manifest">>

DeepFile == <<"a", "b", "x">>

DictTree(root, mid, deep) ==
    (<<>> :> Dir(1)) @@ (<<"a">> :> Dir(1)) @@ (<<"a", "b">> :> Dir(1))
    @@ (TopManifest :> File("reg", 1, ManifestText(root)))
    @@ (SubManifest :> File("reg", 1, ManifestText(mid)))
    @@ (DeepManifest :> File("reg", 1, ManifestText(deep)))
    @@ (DeepFile :> File("reg", 1, Bytes(<<1>>)))

\* an entry for a/b/x in the Manifest of directory d
DeepEntry(d, tag, hs, data) ==
    EntryFor(tag, SubSeq(DeepFile, Len(d) + 1, Len(DeepFile)), hs, data)

DictRootPool ==
    { DeepEntry(<<>>, "DATA", {"SHA512"}, Bytes(<<1>>)),
      DeepEntry(<<>>, "MISC", {"SHA256"}, Bytes(<<1>>)),
      DeepEntry(<<>>, "DATA", {"SHA256"}, Bytes(<<1, 1>>)),
      IGNORE(DeepFile) }

DictMidPool ==
    { DeepEntry(<<"a">>, "EBUILD", {"SHA256"}, Bytes(<<1>>)),
      DeepEntry(<<"a">>, "DATA", {"SHA256"}, Bytes(<<2>>)),
      DeepEntry(<<"a">>, "DATA", {"BLAKE2B", "SHA256"}, Bytes(<<1>>)) }

DictDeepPool ==
    { DeepEntry(<<"a", "b">>, "DATA", {"BLAKE2B"}, Bytes(<<1>>)),
      DeepEntry(<<"a", "b">>, "DATA", {"SHA256"}, Bytes(<<1>>)),
      DeepEntry(<<"a", "b">>, "MISC", {"BLAKE2B"}, Bytes(<<1>>)),
      IGNORE(<<"x">>) }

InitDict ==
    \E deep \in SeqsUpTo(DictDeepPool, MaxDictEntries) :
      \E midTail \in SeqsUpTo(DictMidPool, MaxDictEntries) :
        LET mid == <<EntryFor("MANIFEST", <<"b", "Manifest">>, {"SHA256"},
                              ManifestText(deep))>> \o midTail
        IN \E rootTail \in SeqsUpTo(DictRootPool, MaxDictEntries) :
             LET root == <<EntryFor("MANIFEST", SubManifest, {"SHA256"},
                                    ManifestText(mid))>> \o rootTail
             IN InitFrom(DictTree(root, mid, deep))

DictPaths == {<<>>, <<"a", "b">>}

DictTypes == {AnyType, {"DATA", "EBUILD", "IGNORE"}}

GetFileEntryDict ==
    \E path \in DictPaths, only_types \in DictTypes :
        LET r == get_file_entry_dict(CurWorld, path, only_types)
            again == /\ op.name = "get_file_entry_dict"
                     /\ op.path = path
                     /\ op.only_types = only_types
        IN
        /\ Becomes(r.W)
        /\ op' = [name |-> "get_file_entry_dict", path |-> path,
                  only_types |-> only_types, exc |-> r.W.exc, ret |-> r.ret,
                  again |-> again,
                  prev_exc |-> IF again THEN op.exc ELSE "none",
                  prev_ret |-> IF again THEN op.ret ELSE <<>>,
                  before |-> loaded_manifests]

NextDict == GetFileEntryDict

SpecDict == InitDict /\ [][NextDict]_vars

\* a dict as a function from its keys
DictMap(d) == [k \in DKeys(d) |-> DGet(d, k)]

\* C9: a call of get_file_entry_dict leaves the entries of every Manifest
\* that was loaded before it as they were, and a second call with the same
\* path and only_types on the unchanged tree returns the same map as the
\* first.
C9_Idempotent ==
    op.name = "get_file_entry_dict" =>
        /\ \A i \in DOMAIN op.before :
              /\ op.before[i].k \in Keys(loaded_manifests)
              /\ Get(loaded_manifests, op.before[i].k) = op.before[i].m
        /\ (op.again /\ op.prev_exc = "none") =>
              (op.exc = "none" /\ DictMap(op.ret) = DictMap(op.prev_ret))

\* a second call of get_file_entry_dict('') that returned a merged entry for
\* a/b/x, the deepest Manifest having been loaded by the first call
C9_Witness ==
    /\ op.name = "get_file_entry_dict" /\ op.again
    /\ op.exc = "none" /\ op.prev_exc = "none"
    /\ op.path = <<>>
    /\ DeepManifest \in Keys(op.before)
    /\ DeepFile \in DKeys(op.ret)
    /\ Cardinality(DOMAIN DGet(op.ret, DeepFile).checksums) >= 2

\* the entries of the loaded Manifests: <<i, j>> is entry j of Manifest i
Refs ==
    UNION {{<<i, j>> : j \in DOMAIN loaded_manifests[i].m} :
              i \in DOMAIN loaded_manifests}

EntryAt(ij) == loaded_manifests[ij[1]].m[ij[2]]

ComposedPath(ij) == join(dirname(loaded_manifests[ij[1]].k), EntryAt(ij).path)

\* the entries that get_file_entry_dict(path, only_types) collects for the
\* composed path full
Describing(path, only_types, full) ==
    {ij \in Refs :
        /\ IF only_types = AnyType
           THEN EntryAt(ij).tag \notin {"DIST", "TIMESTAMP"}
           ELSE EntryAt(ij).tag \in only_types
        /\ ComposedPath(ij) = full
        /\ path_starts_with(full, path)}

\* the pair is of different tag classes, of different sizes or has a shared
\* hash with different values
Rejected(e1, e2) ==
    \/ e1.tag # e2.tag /\ ~({e1.tag, e2.tag} \subseteq {"MANIFEST", "DATA", "EBUILD", "AUX"})
    \/ e1.size # e2.size
    \/ \E h \in DOMAIN e1.checksums \intersect DOMAIN e2.checksums :
          e1.checksums[h] # e2.checksums[h]

\* the union of the checksum maps of the entries D, which agree on their
\* shared hashes
UnionSums(D) ==
    [h \in UNION {DOMAIN EntryAt(ij).checksums : ij \in D} |->
        EntryAt(CHOOSE ij \in D : h \in DOMAIN EntryAt(ij).checksums).checksums[h]]

\* C10: get_file_entry_dict raises ManifestIncompatibleEntry iff two of the
\* entries it collects for one path are rejected as a pair (different tag
\* class, different size, or a shared hash with different values);
\* otherwise it returns, for every path described, an entry whose checksum
\* map is the union of the checksum maps of all the entries for that path.
C10_UnionOrRaise ==
    op.name = "get_file_entry_dict" =>
        LET fulls == {ComposedPath(ij) : ij \in Refs}
            D(full) == Describing(op.path, op.only_types, full)
            bad == \E full \in fulls : \E a \in D(full), b \in D(full) :
                       Rejected(EntryAt(a), EntryAt(b))
        IN IF bad THEN op.exc = "ManifestIncompatibleEntry"
           ELSE /\ op.exc = "none"
                /\ DKeys(op.ret) = {full \in fulls : D(full) # {}}
                /\ \A full \in DKeys(op.ret) :
                      DGet(op.ret, full).checksums = UnionSums(D(full))

(***************************************************************************)
(* assert_directory_verifies() on a tree with a directory a that may be on *)
(* another device, a dot-directory .h, a dotfile a/.h, a second top-level  *)
(* Manifest name, and files a/x and y that may be there or not.            *)
(***************************************************************************)
\* the text of a/Manifest
DirSub == <<EntryFor("DATA", <<"x">>, {"SHA256"}, Bytes(<<1>>))>>

DirSubEntry == EntryFor("MANIFEST", SubManifest, {"SHA256"}, ManifestText(DirSub))

\* the tree: a/Manifest is there when the top-level Manifest refers to it
DirTree(root, adev, ax, y) ==
    (<<>> :> Dir(1))
    @@ (TopManifest :> File("reg", 1, ManifestText(root)))
    @@ (<<"Manifest.gz">> :> File("reg", 1, Bytes(<<>>)))
    @@ (<<".h">> :> Dir(1))
    @@ (<<".h", "x">> :> File("reg", 1, Bytes(<<1>>)))
    @@ (<<"a">> :> Dir(adev))
    @@ (<<"a", ".h">> :> File("reg", adev, Bytes(<<1>>)))
    @@ (SubManifest :> IF DirSubEntry \in Range(root)
                       THEN File("reg", adev, ManifestText(DirSub)) ELSE Absent)
    @@ (<<"a", "x">> :> ax)
    @@ (<<"y">> :> y)

\* what the top-level Manifest may start with: an entry for directory a, or
\* an entry for z, which is never there
DirEntryPool ==
    { <<>>,
      <<IGNORE(<<"a">>)>>,
      <<EntryFor("DATA", <<"a">>, {}, Bytes(<<>>))>>,
      <<EntryFor("OPTIONAL", <<"a">>, {}, Bytes(<<>>))>>,
      <<EntryFor("OPTIONAL", <<"z">>, {}, Bytes(<<>>))>>,
      <<IGNORE(<<"z">>)>> }

\* the entries the rest of the top-level Manifest is drawn from
DirRootPool ==
    { EntryFor("DATA", <<"a", "x">>, {"SHA256"}, Bytes(<<1>>)),
      DirSubEntry,
      EntryFor("MISC", <<"y">>, {"SHA256"}, Bytes(<<1>>)) }

InitDir ==
    \E head \in DirEntryPool, tail \in SeqsUpTo(DirRootPool, MaxDictEntries),
       adev \in {1, 2} :
        \E ax \in {Absent, File("reg", adev, Bytes(<<1>>)), File("reg", adev, Bytes(<<2>>))},
           y \in {Absent, File("reg", 1, Bytes(<<1>>))} :
            InitFrom(DirTree(head \o tail, adev, ax, y))

DirPaths == {<<>>, <<"a">>}

\* the names of the tree, in the order a directory lists them
DirNames == <<".h", "Manifest", "Manifest.gz", "a", "x", "y">>

AssertDirectoryVerifies ==
    \E path \in DirPaths, fail \in HandlerResults,
       warn \in {"default", "None", "False"} :
        LET r == assert_directory_verifies(CurWorld, path, Handlers(fail, warn), DirNames)
        IN
        /\ Becomes(r.W)
        /\ op' = [name |-> "assert_directory_verifies", path |-> path,
                  fail |-> fail, warn |-> warn, exc |-> r.W.exc, ret |-> r.ret,
                  log |-> r.log, entry_dict |-> r.entry_dict]

NextDir == AssertDirectoryVerifies

SpecDir == InitDir /\ [][NextDir]_vars

\* the events of the walk for directory names
DirEvents == {i \in DOMAIN op.log : op.log[i].kind = "dir"}

\* the event is for a path on another device than manifest_device
OnForeignDevice(ev) == FsGet(fs, ev.path).dev # manifest_device

ExistsDiff(expected, found) == << <<"__exists__", expected, found>> >>

\* the handler object that is called as warn_handler
WarnHandlerName == IF op.warn = "default" THEN "fail_handler" ELSE "warn_handler"

\* C6 as stated: every subdirectory met in the walk whose st_dev differs
\* from manifest_device makes assert_directory_verifies raise
\* ManifestCrossDevice without a handler being called for it, whatever entry
\* the directory has (none, IGNORE or a file-kind entry).
C6_AlwaysCrossDevice ==
    op.name = "assert_directory_verifies" =>
        \A i \in DirEvents :
            OnForeignDevice(op.log[i]) =>
                /\ op.exc = "ManifestCrossDevice"
                /\ op.log[i].h = "none"

\* C6, amended: a subdirectory met in the walk whose st_dev differs from
\* manifest_device ends the call with ManifestCrossDevice, no handler being
\* called for it, when it has no entry or an entry other than IGNORE and
\* OPTIONAL; with an IGNORE entry it is skipped with its whole subtree and no
\* device is compared; with an OPTIONAL entry it is reported to warn_handler
\* as an existence mismatch.
C6_CrossDevice ==
    op.name = "assert_directory_verifies" =>
        \A i \in DirEvents :
            LET ev == op.log[i] IN
            OnForeignDevice(ev) =>
                IF IsNone(ev.e) \/ ev.e.tag \notin {"IGNORE", "OPTIONAL"}
                THEN /\ ev.exc = "ManifestCrossDevice"
                     /\ op.exc = "ManifestCrossDevice"
                     /\ ev.h = "none"
                     /\ i = Len(op.log)
                ELSE IF ev.e.tag = "IGNORE"
                THEN /\ ev.exc = "none"
                     /\ ev.h = "none"
                     /\ \A j \in DOMAIN op.log :
                           (j # i /\ path_starts_with(op.log[j].path, ev.path))
                               => op.log[j].kind = "missing"
                ELSE /\ ev.h = WarnHandlerName
                     /\ ev.diff = ExistsDiff(FALSE, TRUE)

\* a directory without entry on another device ended a call whose handlers
\* do not raise
C6_Witness ==
    /\ op.name = "assert_directory_verifies"
    /\ op.fail = "None"
    /\ op.exc = "ManifestCrossDevice"
    /\ \E i \in DirEvents :
          /\ OnForeignDevice(op.log[i])
          /\ IsNone(op.log[i].e)
          /\ op.log[i].path = <<"a">>

\* some IGNORE entry of a loaded Manifest covers the path p
IgnoredAbove(p) ==
    \E i \in DOMAIN loaded_manifests : \E j \in DOMAIN loaded_manifests[i].m :
        LET x == loaded_manifests[i]
            e == x.m[j]
        IN /\ e.tag = "IGNORE"
           /\ path_starts_with(p, FullPath(x, e))

\* the files the walk of op.path has to report: regular files below it that
\* are no dotfiles, are not covered by an IGNORE entry, are not a top-level
\* Manifest name and have no entry in the composed entry set
StrayFiles ==
    {p \in DOMAIN fs :
        /\ fs[p].kind = "reg"
        /\ path_starts_with(p, op.path)
        /\ ~StartsWithDot(basename(p))
        /\ ~IgnoredAbove(p)
        /\ ~\E n \in Range(get_potential_compressed_names("Manifest")) : p = <<n>>
        /\ p \notin DKeys(op.entry_dict)}

\* the event reports p to fail_handler as a file that should not exist
ReportsStray(ev, p) ==
    /\ ev.path = p
    /\ ev.h = "fail_handler"
    /\ ev.diff = ExistsDiff(FALSE, TRUE)

\* C7 as stated: a call of assert_directory_verifies that returns has called
\* fail_handler, with the diff [('__exists__', False, True)], for every
\* regular file under the verified directory that is not a dotfile, not
\* under an IGNOREd directory, not a top-level Manifest name and has no entry.
C7_EveryStrayReported ==
    (op.name = "assert_directory_verifies" /\ op.exc = "none") =>
        \A p \in StrayFiles : \E i \in DOMAIN op.log : ReportsStray(op.log[i], p)

\* the stray files that are not inside a directory whose name starts with a
\* dot
VisibleStrayFiles ==
    {p \in StrayFiles :
        \A k \in (Len(op.path) + 1)..Len(p) : ~StartsWithDot(p[k])}

\* C7, amended: a call of assert_directory_verifies that returns has called
\* fail_handler exactly once, with the diff [('__exists__', False, True)],
\* for every stray regular file that is not inside a dot-directory either;
\* and whenever the walk comes to such a file, returning or not, that is the
\* call it makes, so that a raising fail_handler (the default) ends the call
\* with ManifestMismatch.
C7_StrayReported ==
    op.name = "assert_directory_verifies" =>
        /\ op.exc = "none" =>
              \A p \in VisibleStrayFiles :
                  /\ \E i \in DOMAIN op.log : ReportsStray(op.log[i], p)
                  /\ Cardinality({i \in DOMAIN op.log : op.log[i].path = p}) = 1
        /\ \A i \in DOMAIN op.log :
              op.log[i].path \in VisibleStrayFiles =>
                  /\ ReportsStray(op.log[i], op.log[i].path)
                  /\ op.fail = "raise" =>
                        (op.exc = "ManifestMismatch" /\ i = Len(op.log))

\* a call that returned False after reporting the two stray files y and a/x
C7_Witness ==
    /\ op.name = "assert_directory_verifies"
    /\ op.exc = "none" /\ op.fail = "False" /\ ~op.ret
    /\ {<<"y">>, <<"a", "x">>} \subseteq VisibleStrayFiles
    /\ \A p \in {<<"y">>, <<"a", "x">>} :
          \E i \in DOMAIN op.log : ReportsStray(op.log[i], p)

\* C8: when an IGNORE entry covers the directory d, assert_directory_verifies
\* calls no handler for any path under d (and so its result does not depend
\* on what is under d), even when some Manifest holds file entries for paths
\* under d.
C8_IgnoredSubtreeSilent ==
    op.name = "assert_directory_verifies" =>
        \A i \in DOMAIN op.log :
            LET ev == op.log[i] IN
            (ev.path # <<>> /\ IgnoredAbove(dirname(ev.path)) /\ dirname(ev.path) # <<>>)
                => (ev.h = "none" /\ ev.exc = "none")

\* the events of _verify_one_file() calls: every event but those of the
\* directories the walk takes without verifying them (no entry, or IGNORE)
VerifyEvents ==
    {i \in DOMAIN op.log :
        ~(op.log[i].kind = "dir"
          /\ (IsNone(op.log[i].e) \/ op.log[i].e.tag = "IGNORE"))}

\* what verify_path() makes of the path and the entry of the event
Verdict(ev) == VerifyPath(FsGet(fs, ev.path), ev.e, manifest_device)

\* C18: in assert_directory_verifies every verification that finds a
\* mismatch leads to one handler call with the diff found: of warn_handler
\* iff the expected entry is MISC or OPTIONAL, of fail_handler for every
\* other entry and for a path without entry; fail_handler gets both kinds
\* when warn_handler is not given.  A verification without mismatch calls
\* no handler.
C18_HandlerByTag ==
    op.name = "assert_directory_verifies" =>
        \A i \in VerifyEvents :
            LET ev == op.log[i]
                v == Verdict(ev)
            IN IF v.exc = "none" /\ ~v.ok
               THEN /\ ev.diff = v.diff
                    /\ ev.h = IF ~IsNone(ev.e) /\ ev.e.tag \in {"MISC", "OPTIONAL"}
                              THEN WarnHandlerName ELSE "fail_handler"
               ELSE ev.h = "none"

\* a call with a warn_handler of its own that called warn_handler for an
\* OPTIONAL or MISC entry and fail_handler for a path without entry
C18_Witness ==
    /\ op.name = "assert_directory_verifies" /\ op.warn # "default"
    /\ \E i \in VerifyEvents :
          /\ op.log[i].h = "warn_handler"
          /\ op.log[i].e.tag \in {"MISC", "OPTIONAL"}
    /\ \E i \in VerifyEvents :
          /\ op.log[i].h = "fail_handler"
          /\ IsNone(op.log[i].e)

\* what the handler called in the event returned
Returned_by(ev) == IF ev.h = "fail_handler" THEN op.fail ELSE op.warn

\* C19: when no handler raises (and nothing else does),
\* assert_directory_verifies goes through the whole tree, whatever the
\* handlers return: every entry of the composed entry set and every stray
\* file is verified; it returns False iff at least one handler call
\* returned False, a handler's None counting as True.
C19_ResultIsConjunction ==
    (op.name = "assert_directory_verifies" /\ op.exc = "none") =>
        /\ op.ret = ~\E i \in DOMAIN op.log :
                        op.log[i].h # "none" /\ Returned_by(op.log[i]) = "False"
        /\ \A k \in DKeys(op.entry_dict) \union VisibleStrayFiles :
              \E i \in DOMAIN op.log : op.log[i].path = k

\* a call that returned False: fail_handler returned False for a stray
\* file, the walk went on and warn_handler returned None for a later
\* mismatch
C19_Witness ==
    /\ op.name = "assert_directory_verifies" /\ op.exc = "none"
    /\ op.fail = "False" /\ op.warn = "None" /\ ~op.ret
    /\ \E i \in DOMAIN op.log, j \in DOMAIN op.log :
          /\ i < j
          /\ op.log[i].h = "fail_handler"
          /\ op.log[j].h = "warn_handler"

(***************************************************************************)
(* Updating and saving: a tree whose top-level Manifest refers to a        *)
(* Manifest of its own directory (Manifest.files, which describes x) and   *)
(* to a/Manifest (which describes a/x).  Files are rewritten and removed   *)
(* behind the loader's back, entries are updated and the Manifests saved.  *)
(***************************************************************************)
FilesManifest == <<"Manifest.files">>

SaveFiles == <<EntryFor("DATA", <<"x">>, {"SHA256"}, Bytes(<<1>>))>>

SaveSub == <<EntryFor("DATA", <<"x">>, {"SHA256"}, Bytes(<<1>>))>>

SaveRoot ==
    << EntryFor("MANIFEST", FilesManifest, {"SHA256"}, ManifestText(SaveFiles)),
       EntryFor("MANIFEST", SubManifest, {"SHA256"}, ManifestText(SaveSub)) >>

SaveTree ==
    (<<>> :> Dir(1)) @@ (<<"a">> :> Dir(1))
    @@ (TopManifest :> File("reg", 1, ManifestText(SaveRoot)))
    @@ (FilesManifest :> File("reg", 1, ManifestText(SaveFiles)))
    @@ (SubManifest :> File("reg", 1, ManifestText(SaveSub)))
    @@ (<<"x">> :> File("reg", 1, Bytes(<<1>>)))
    @@ (<<"a", "x">> :> File("reg", 1, Bytes(<<1>>)))

InitSave == InitFrom(SaveTree)

\* a file of the tree is rewritten by someone else
WriteFile ==
    \E path \in {<<"x">>, <<"a", "x">>}, data \in {Bytes(<<2>>)} :
        /\ FsGet(fs, path).data # data
        /\ fs' = Written(fs, path, data)
        /\ op' = [name |-> "write", path |-> path]
        /\ UNCHANGED <<loaded_manifests, updated_manifests, manifest_device, files>>

\* a file of the tree is removed by someone else
RemoveFile ==
    \E path \in {SubManifest} :
        /\ FsGet(fs, path).kind # "absent"
        /\ fs' = Unlinked(fs, path)
        /\ op' = [name |-> "remove", path |-> path]
        /\ UNCHANGED <<loaded_manifests, updated_manifests, manifest_device, files>>

\* the paths that are updated: the two files, and a/Manifest once it is
\* gone
UpdatePaths ==
    {<<"x">>, <<"a", "x">>}
    \union (IF FsGet(fs, SubManifest).kind = "absent" THEN {SubManifest} ELSE {})

UpdateEntryForPath ==
    \E path \in UpdatePaths, hashes \in {{"SHA256"}} :
        LET W == update_entry_for_path(CurWorld, path, "DATA", hashes) IN
        /\ Becomes(W)
        /\ op' = [name |-> "update_entry_for_path", path |-> path,
                  hashes |-> hashes, exc |-> W.exc]

SaveWatermarks == {NoWatermark, Watermark(0)}

SaveManifests ==
    \E force \in BOOLEAN, compress_watermark \in SaveWatermarks,
       flush_late \in BOOLEAN :
        LET r == save_manifests(CurWorld, NoHashes, force, compress_watermark,
                                "gz", [flush_late |-> flush_late, now |-> 0]) IN
        /\ Becomes(r.W)
        /\ op' = [name |-> "save_manifests", force |-> force,
                  compress_watermark |-> compress_watermark,
                  exc |-> r.W.exc, written |-> r.written]

NextSave == WriteFile \/ RemoveFile \/ UpdateEntryForPath \/ SaveManifests

SpecSave == InitSave /\ [][NextSave]_vars

\* C3: the final assertion of save_manifests never fails: after any
\* sequence of updates the save returns with updated_manifests empty.
C3_SaveLeavesNothing ==
    op.name = "save_manifests" =>
        /\ op.exc # "AssertionError"
        /\ op.exc = "none" => updated_manifests = {}

\* the MANIFEST entry e carries the size and the checksums of the file f
Carries(e, f) ==
    /\ f.kind = "reg"
    /\ e.size = Size(f.data)
    /\ e.checksums = ChecksumsOf(DOMAIN e.checksums, f.data)

\* C4: when save_manifests returns, every MANIFEST entry of a loaded
\* Manifest whose sub-Manifest was written in this call carries the size
\* and checksums of the sub-Manifest file as it is on disk, whatever the
\* directories of the two Manifests (the same directory included).
C4_ParentAfterChild ==
    (op.name = "save_manifests" /\ op.exc = "none") =>
        \A i \in DOMAIN loaded_manifests :
            \A j \in DOMAIN loaded_manifests[i].m :
                LET x == loaded_manifests[i]
                    e == x.m[j]
                IN (e.tag = "MANIFEST" /\ FullPath(x, e) \in op.written)
                      => Carries(e, FsGet(fs, FullPath(x, e)))

(***************************************************************************)
(* verify_entry_compatibility() on its own: a Manifest of two entries for  *)
(* the same path, drawn from a pool of tags, sizes and checksum maps, each *)
(* entry compared with itself and with the other.                          *)
(***************************************************************************)
CompatContents == {Bytes(<<1>>), Bytes(<<2>>), Bytes(<<1, 1>>)}

CompatHashes == {{}, {"SHA256"}, {"BLAKE2B"}, {"BLAKE2B", "SHA256"}}

CompatEntries ==
    {IGNORE(ThePath)}
    \union {EntryFor(t, ThePath, hs, c) :
                t \in {"DATA", "MANIFEST", "MISC"},
                hs \in CompatHashes,
                c \in CompatContents}

InitCompat ==
    \E e1 \in CompatEntries, e2 \in CompatEntries :
        /\ fs = (<<>> :> Dir(1))
        /\ loaded_manifests = <<[k |-> TopManifest, m |-> <<e1, e2>>]>>
        /\ updated_manifests = {}
        /\ manifest_device = 1
        /\ files = <<>>
        /\ op = [name |-> "init"]

\* gemato.verify.verify_entry_compatibility(e1, e2) for two entries of the
\* Manifest
VerifyEntryCompatibility ==
    \E i \in 1..2, j \in 1..2 :
        LET e1 == loaded_manifests[1].m[i]
            e2 == loaded_manifests[1].m[j]
        IN
        /\ op' = [name |-> "verify_entry_compatibility", e1 |-> e1, e2 |-> e2,
                  res |-> verify_entry_compatibility(e1, e2)]
        /\ UNCHANGED <<fs, loaded_manifests, updated_manifests, manifest_device, files>>

NextCompat == VerifyEntryCompatibility

SpecCompat == InitCompat /\ [][NextCompat]_vars

\* C11: verify_entry_compatibility(e, e) returns (True, []) for every path
\* entry e, IGNORE entries included.
C11_Reflexive ==
    (op.name = "verify_entry_compatibility" /\ op.e1 = op.e2) =>
        op.res = [exc |-> "none", ok |-> TRUE, diff |-> <<>>]

\* the hashes that only one of the two entries has
OneSided(e1, e2) ==
    (DOMAIN e1.checksums \union DOMAIN e2.checksums)
        \ (DOMAIN e1.checksums \intersect DOMAIN e2.checksums)

\* C12: verify_entry_compatibility(e1, e2) returns compatible=True iff the
\* tags are equal or both among MANIFEST, DATA, EBUILD and AUX, the sizes
\* are equal and no hash present in both entries has different values; when
\* it gets to the checksums, a hash present in only one entry is in the diff
\* as (hash, value, None) or (hash, None, value) and does not make the
\* result incompatible.
C12_CompatibleIff ==
    op.name = "verify_entry_compatibility" =>
        /\ op.res.exc = "none"
        /\ op.res.ok <=> ~Rejected(op.e1, op.e2)
        /\ op.res.ok =>
              \A h \in OneSided(op.e1, op.e2) :
                  \E k \in DOMAIN op.res.diff :
                      op.res.diff[k] = <<h, SumGet(op.e1, h), SumGet(op.e2, h)>>

(***************************************************************************)
(* get_deduplicated_file_entry_dict_for_update() on the tree of three      *)
(* nested Manifests that may all describe a/b/x.                           *)
(***************************************************************************)
GetDeduplicatedFileEntryDictForUpdate ==
    \E path \in DictPaths :
        LET r == get_deduplicated_file_entry_dict_for_update(CurWorld, path) IN
        /\ Becomes(r.W)
        /\ op' = [name |-> "get_deduplicated_file_entry_dict_for_update",
                  path |-> path, exc |-> r.W.exc, ret |-> r.ret,
                  loaded |-> r.loaded]

NextDedup == GetDeduplicatedFileEntryDictForUpdate

SpecDedup == InitDict /\ [][NextDedup]_vars

\* the entries of the Manifests lm: <<i, j>> is entry j of Manifest i
RefsOf(lm) == UNION {{<<i, j>> : j \in DOMAIN lm[i].m} : i \in DOMAIN lm}

ComposedIn(lm, ij) == join(dirname(lm[ij[1]].k), lm[ij[1]].m[ij[2]].path)

\* the entries of the Manifests lm that the deduplication under path takes
\* for the composed path full
DuplicatesOf(lm, path, full) ==
    {ij \in RefsOf(lm) :
        /\ lm[ij[1]].m[ij[2]].tag \notin {"DIST", "TIMESTAMP"}
        /\ ComposedIn(lm, ij) = full
        /\ path_starts_with(full, path)}

\* the entries D of lm are compatible with each other
Compatible(lm, D) ==
    \A a \in D, b \in D : ~Rejected(lm[a[1]].m[a[2]], lm[b[1]].m[b[2]])

\* the union of the checksum maps of the entries D of lm, which agree on
\* their shared hashes
UnionSumsOf(lm, D) ==
    [h \in UNION {DOMAIN lm[ij[1]].m[ij[2]].checksums : ij \in D} |->
        LET ij == CHOOSE x \in D : h \in DOMAIN lm[x[1]].m[x[2]].checksums
        IN lm[ij[1]].m[ij[2]].checksums[h]]

\* the paths described by the Manifests lm under path
DescribedIn(lm, path) ==
    {full \in {ComposedIn(lm, ij) : ij \in RefsOf(lm)} :
        DuplicatesOf(lm, path, full) # {}}

\* the outcome for the path full, which the entries D of the Manifests
\* loaded when the loop started describe: the entry of the deepest Manifest
\* is returned with the union of the hashes, and it is the only entry left
\* for the path
KeptDeepest(full, D) ==
    /\ \E k \in DOMAIN op.ret :
          /\ op.ret[k].k = full
          /\ StrLen(dirname(op.ret[k].mpath))
                = Max({StrLen(dirname(op.loaded[ij[1]].k)) : ij \in D})
          /\ op.ret[k].e.checksums = UnionSumsOf(op.loaded, D)
          /\ \A ij \in DuplicatesOf(loaded_manifests, op.path, full) :
                /\ loaded_manifests[ij[1]].k = op.ret[k].mpath
                /\ loaded_manifests[ij[1]].m[ij[2]] = op.ret[k].e
    /\ Cardinality(DuplicatesOf(loaded_manifests, op.path, full)) = 1

\* C13: when the entries that describe each path under p are compatible
\* with each other, get_deduplicated_file_entry_dict_for_update(p) returns;
\* and when it returns, for every path described by compatible entries the
\* entry of the deepest Manifest is kept with the union of the duplicates'
\* hashes, every other entry for the path is removed, every Manifest that
\* lost an entry is in updated_manifests, and the returned map holds one
\* (manifest path, entry) per path.
C13_DedupKeepsDeepest ==
    op.name = "get_deduplicated_file_entry_dict_for_update" =>
        LET fulls == DescribedIn(op.loaded, op.path)
            D(full) == DuplicatesOf(op.loaded, op.path, full)
        IN
        /\ (\A full \in fulls : Compatible(op.loaded, D(full))) => op.exc = "none"
        /\ op.exc = "none" =>
              /\ \A full \in fulls :
                    Compatible(op.loaded, D(full)) => KeptDeepest(full, D(full))
              /\ \A i \in DOMAIN op.loaded :
                    Len(Get(loaded_manifests, op.loaded[i].k)) < Len(op.loaded[i].m)
                        => op.loaded[i].k \in updated_manifests
              /\ {op.ret[k].k : k \in DOMAIN op.ret} = fulls
              /\ Len(op.ret) = Cardinality(fulls)

(***************************************************************************)
(* Saving with a compression watermark: three nested Manifests of two, two *)
(* and one entries; entries are updated and the Manifests saved with and   *)
(* without force under the watermarks 0, 1 and 2.                          *)
(***************************************************************************)
WmDeep == <<EntryFor("DATA", <<"x">>, {"SHA256"}, Bytes(<<1>>))>>

WmMid ==
    << EntryFor("MANIFEST", <<"b", "Manifest">>, {"SHA256"}, ManifestText(WmDeep)),
       EntryFor("DATA", <<"x">>, {"SHA256"}, Bytes(<<1>>)) >>

WmRoot ==
    << EntryFor("MANIFEST", SubManifest, {"SHA256"}, ManifestText(WmMid)),
       EntryFor("DATA", <<"x">>, {"SHA256"}, Bytes(<<1>>)) >>

WmTree ==
    DictTree(WmRoot, WmMid, WmDeep)
    @@ (<<"x">> :> File("reg", 1, Bytes(<<1>>)))
    @@ (<<"a", "x">> :> File("reg", 1, Bytes(<<1>>)))

InitWm == InitFrom(WmTree)

WmWatermarks == {NoWatermark, Watermark(0), Watermark(1), Watermark(2)}

UpdateEntryForPathWm ==
    \E path \in {<<"x">>, <<"a", "x">>, DeepFile} :
        LET W == update_entry_for_path(CurWorld, path, "DATA", {"SHA256"}) IN
        /\ Becomes(W)
        /\ op' = [name |-> "update_entry_for_path", path |-> path, exc |-> W.exc]

SaveManifestsWm ==
    \E force \in BOOLEAN, compress_watermark \in WmWatermarks,
       flush_late \in BOOLEAN :
        LET r == save_manifests(CurWorld, NoHashes, force, compress_watermark,
                                "gz", [flush_late |-> flush_late, now |-> 0]) IN
        /\ Becomes(r.W)
        /\ op' = [name |-> "save_manifests", force |-> force,
                  compress_watermark |-> compress_watermark,
                  flush_late |-> flush_late,
                  exc |-> r.W.exc, written |-> r.written, renamed |-> r.renamed]

NextWm == UpdateEntryForPathWm \/ SaveManifestsWm

SpecWm == InitWm /\ [][NextWm]_vars

\* the name of the Manifest mpath with the other compression
OtherName(mpath) ==
    IF get_compressed_suffix_from_filename(mpath) # "None"
    THEN WithoutSuffix(mpath) ELSE WithSuffix(mpath, "gz")

\* the Manifest mpath is loaded and on disk, and nothing is loaded or on
\* disk under its other name
StoredAs(mpath) ==
    /\ mpath \in Keys(loaded_manifests)
    /\ FsGet(fs, mpath).kind = "reg"
    /\ OtherName(mpath) \notin Keys(loaded_manifests)
    /\ FsGet(fs, OtherName(mpath)).kind = "absent"

\* C14: after save_manifests(compress_watermark=w) returns, every Manifest
\* written by the call is stored under the compressed name iff its
\* uncompressed size is >= w; the file under its other name is gone and
\* loaded_manifests holds the Manifest under the one name only.
C14_WatermarkDecides ==
    (/\ op.name = "save_manifests"
     /\ op.exc = "none"
     /\ op.compress_watermark # NoWatermark) =>
        \A mpath \in op.written :
            LET now == IF mpath \in Keys(loaded_manifests) THEN mpath
                       ELSE OtherName(mpath)
            IN /\ StoredAs(now)
               /\ get_compressed_suffix_from_filename(now) # "None"
                    <=> \E w \in op.compress_watermark :
                            Size(ManifestText(Get(loaded_manifests, now))) >= w

\* the MANIFEST entries of the loaded Manifests whose composed path is
\* mpath: <<i, j>> is entry j of Manifest i
ParentRefs(mpath) ==
    {ij \in Refs : EntryAt(ij).tag = "MANIFEST" /\ ComposedPath(ij) = mpath}

\* the Manifest loaded_manifests[i] is on disk with the entries it has in
\* memory
OnDisk(i) ==
    LET x == loaded_manifests[i] IN
    ReadManifest(x.k, FsGet(fs, x.k)) = [exc |-> "none", entries |-> x.m]

\* C15: when save_manifests has renamed a sub-Manifest and returns, no
\* MANIFEST entry of a loaded Manifest names the deleted file, a parent's
\* entry names the new file and carries its size and checksums, and the
\* parent is on disk with that entry.
C15_ParentsFollowRename ==
    (op.name = "save_manifests" /\ op.exc = "none") =>
        \A k \in DOMAIN op.renamed :
            op.renamed[k].k \notin {TopManifest, OtherName(TopManifest)} =>
                /\ ParentRefs(op.renamed[k].k) = {}
                /\ ParentRefs(op.renamed[k].v) # {}
                /\ \A ij \in ParentRefs(op.renamed[k].v) :
                      /\ Carries(EntryAt(ij), FsGet(fs, op.renamed[k].v))
                      /\ OnDisk(ij[1])

(***************************************************************************)
(* The round trip: a consistent tree of three nested Manifests, the        *)
(* deepest of them plain or compressed, is loaded and saved with force and *)
(* without watermark, at the time the compressed file was written or       *)
(* later.                                                                  *)
(***************************************************************************)
DeepManifestGz == <<"a", "b", "Manifest.gz">>

\* the deepest Manifest of the tree: its path and the contents of its file
RoundDeeps(deep) ==
    {[k |-> DeepManifest, data |-> ManifestText(deep)]}
    \union {[k |-> DeepManifestGz, data |-> Gz(ManifestText(deep), mtime)] :
                mtime \in {0, 1}}

RoundTree(root, mid, d) ==
    (<<>> :> Dir(1)) @@ (<<"a">> :> Dir(1)) @@ (<<"a", "b">> :> Dir(1))
    @@ (TopManifest :> File("reg", 1, ManifestText(root)))
    @@ (SubManifest :> File("reg", 1, ManifestText(mid)))
    @@ (d.k :> File("reg", 1, d.data))
    @@ (DeepFile :> File("reg", 1, Bytes(<<1>>)))

InitRound ==
    \E deep \in SeqsUpTo(DictDeepPool, MaxDictEntries) :
      \E d \in RoundDeeps(deep) :
        \E midTail \in SeqsUpTo(DictMidPool, MaxDictEntries) :
          LET mid == <<EntryFor("MANIFEST", SubSeq(d.k, 2, 3), {"SHA256"}, d.data)>>
                         \o midTail
          IN \E rootTail \in SeqsUpTo(DictRootPool, MaxDictEntries) :
               LET root == <<EntryFor("MANIFEST", SubManifest, {"SHA256"},
                                      ManifestText(mid))>> \o rootTail
               IN InitFrom(RoundTree(root, mid, d))

\* save_manifests(force=True)
SaveManifestsForce ==
    \E flush_late \in BOOLEAN, now \in {1, 2} :
        LET r == save_manifests(CurWorld, NoHashes, TRUE, NoWatermark, "gz",
                                [flush_late |-> flush_late, now |-> now]) IN
        /\ Becomes(r.W)
        /\ op' = [name |-> "save_manifests", force |-> TRUE, now |-> now,
                  exc |-> r.W.exc, written |-> r.written, renamed |-> r.renamed,
                  before |-> fs]

NextRound == SaveManifestsForce

SpecRound == InitRound /\ [][NextRound]_vars

\* the Manifest files of the tree f
ManifestFiles(f) ==
    {q \in DOMAIN f :
        /\ q # <<>>
        /\ basename(q) \in Range(get_potential_compressed_names("Manifest"))
        /\ f[q].kind = "reg"}

\* every MANIFEST entry of a Manifest file of the tree f carries the size
\* and the checksums of the file it names
ConsistentTree(f) ==
    \A q \in ManifestFiles(f) :
        LET r == ReadManifest(q, f[q]) IN
        /\ r.exc = "none"
        /\ \A j \in DOMAIN r.entries :
              r.entries[j].tag = "MANIFEST" =>
                  Carries(r.entries[j], FsGet(f, join(dirname(q), r.entries[j].path)))

\* C16: save_manifests(force=True) without watermark on a consistent tree
\* that was loaded and not changed rewrites every Manifest file of the tree
\* with exactly the entries it had on disk, in the same order, and renames
\* none.
C16_RoundTrip ==
    (op.name = "save_manifests" /\ ConsistentTree(op.before)) =>
        /\ op.exc = "none"
        /\ op.renamed = <<>>
        /\ op.written = ManifestFiles(op.before)
        /\ ManifestFiles(fs) = ManifestFiles(op.before)
        /\ \A q \in ManifestFiles(op.before) :
              ReadManifest(q, fs[q]) = ReadManifest(q, op.before[q])

(***************************************************************************)
(* load_manifests_for_path() on the tree of three nested Manifests: only   *)
(* the top-level Manifest is loaded at first, a/b/Manifest is reachable    *)
(* through a/Manifest only.                                                *)
(***************************************************************************)
LoadPaths == {<<>>, <<"a">>, DeepFile}

LoadManifestsForPath ==
    \E path \in LoadPaths, recursive \in BOOLEAN :
        LET W == load_manifests_for_path(CurWorld, path, recursive) IN
        /\ Becomes(W)
        /\ op' = [name |-> "load_manifests_for_path", path |-> path,
                  recursive |-> recursive, exc |-> W.exc,
                  before |-> Keys(loaded_manifests)]

NextLoad == LoadManifestsForPath

SpecLoad == InitDict /\ [][NextLoad]_vars

\* the directory mdir is within the scope of the query
InScope(mdir, path, recursive) ==
    \/ path_starts_with(path, mdir)
    \/ recursive /\ path_starts_with(mdir, path)

\* C17: when load_manifests_for_path(p, recursive) returns, every MANIFEST
\* entry of a loaded Manifest applicable to p whose target's directory is
\* within the scope of the query (a prefix of p, or under p when recursive)
\* has its target loaded, the targets reachable only through Manifests
\* loaded during the call included.
C17_LoadedToFixpoint ==
    (op.name = "load_manifests_for_path" /\ op.exc = "none") =>
        \A ij \in Refs :
            (/\ EntryAt(ij).tag = "MANIFEST"
             /\ InScope(dirname(loaded_manifests[ij[1]].k), op.path, op.recursive)
             /\ InScope(dirname(ComposedPath(ij)), op.path, op.recursive))
                => ComposedPath(ij) \in Keys(loaded_manifests)

\* a call that found only the top-level Manifest loaded and loaded
\* a/b/Manifest, which only a/Manifest refers to
C17_Witness ==
    /\ op.name = "load_manifests_for_path" /\ op.exc = "none"
    /\ op.before = {TopManifest}
    /\ DeepManifest \in Keys(loaded_manifests)
    /\ SubManifest \in Keys(loaded_manifests)

(***************************************************************************)
(* update_entry_for_path() for the file a/b/x, which the three nested      *)
(* Manifests may all describe, with up-to-date, stale and OPTIONAL entries *)
(* and IGNORE entries; the file is rewritten between the calls.            *)
(***************************************************************************)
UpdRootPool ==
    { DeepEntry(<<>>, "DATA", {"SHA512"}, Bytes(<<1>>)),
      DeepEntry(<<>>, "OPTIONAL", {}, Bytes(<<>>)),
      EntryFor("DATA", <<"y">>, {"SHA256"}, Bytes(<<1>>)),
      IGNORE(<<"a", "b">>) }

UpdMidPool ==
    { DeepEntry(<<"a">>, "MISC", {"SHA256"}, Bytes(<<2>>)),
      DeepEntry(<<"a">>, "OPTIONAL", {}, Bytes(<<>>)) }

UpdDeepPool ==
    { DeepEntry(<<"a", "b">>, "DATA", {"BLAKE2B"}, Bytes(<<1>>)),
      DeepEntry(<<"a", "b">>, "OPTIONAL", {}, Bytes(<<>>)) }

InitUpd ==
    \E deep \in SeqsUpTo(UpdDeepPool, MaxDictEntries) :
      \E midTail \in SeqsUpTo(UpdMidPool, MaxDictEntries) :
        LET mid == <<EntryFor("MANIFEST", <<"b", "Manifest">>, {"SHA256"},
                              ManifestText(deep))>> \o midTail
        IN \E rootTail \in SeqsUpTo(UpdRootPool, MaxDictEntries) :
             LET root == <<EntryFor("MANIFEST", SubManifest, {"SHA256"},
                                    ManifestText(mid))>> \o rootTail
             IN InitFrom(DictTree(root, mid, deep))

\* the file a/b/x is rewritten by someone else
WriteDeepFile ==
    \E data \in {Bytes(<<1>>), Bytes(<<2>>)} :
        /\ FsGet(fs, DeepFile).data # data
        /\ fs' = Written(fs, DeepFile, data)
        /\ op' = [name |-> "write", path |-> DeepFile]
        /\ UNCHANGED <<loaded_manifests, updated_manifests, manifest_device, files>>

\* the file a/b/x is removed by someone else
RemoveDeepFile ==
    /\ FsGet(fs, DeepFile).kind # "absent"
    /\ fs' = Unlinked(fs, DeepFile)
    /\ op' = [name |-> "remove", path |-> DeepFile]
    /\ UNCHANGED <<loaded_manifests, updated_manifests, manifest_device, files>>

NewEntryTypes == {"DATA", "MISC"}

UpdateEntryForDeepFile ==
    \E hashes \in {NoHashes, {"SHA256"}}, new_entry_type \in NewEntryTypes :
        LET W == update_entry_for_path(CurWorld, DeepFile, new_entry_type, hashes) IN
        /\ Becomes(W)
        /\ op' = [name |-> "update_entry_for_path", path |-> DeepFile,
                  hashes |-> hashes, new_entry_type |-> new_entry_type,
                  exc |-> W.exc,
                  before |-> loaded_manifests, dirty |-> updated_manifests]

NextUpd == WriteDeepFile \/ RemoveDeepFile \/ UpdateEntryForDeepFile

SpecUpd == InitUpd /\ [][NextUpd]_vars

\* the entries the Manifest k had when the loop of the call started: those
\* in memory, or those of its file when the call loaded it
EntriesBefore(k) ==
    IF k \in Keys(op.before) THEN Get(op.before, k)
    ELSE ReadManifest(k, FsGet(fs, k)).entries

\* the entries for op.path that the Manifest k had: their indices
ForPath(k) ==
    {j \in DOMAIN EntriesBefore(k) :
        /\ EntriesBefore(k)[j].tag \notin {"IGNORE", "DIST", "TIMESTAMP"}
        /\ join(dirname(k), EntriesBefore(k)[j].path) = op.path}

\* the entry <<k, j>> comes before <<k2, j2>>: deeper Manifest first, then
\* the order of the file
ComesBefore(k, j, k2, j2) ==
    \/ StrLen(dirname(k)) > StrLen(dirname(k2))
    \/ k = k2 /\ j < j2

\* the entry <<k, j>> is the first entry, OPTIONAL or not, for op.path
FirstForPath(k, j) ==
    /\ j \in ForPath(k)
    /\ \A k2 \in Keys(loaded_manifests) : \A j2 \in ForPath(k2) :
          <<k2, j2>> # <<k, j>> => ComesBefore(k, j, k2, j2)

\* the entry e with the size and the checksums of the file at op.path
Recomputed(e) ==
    [e EXCEPT !.size = Size(FsGet(fs, op.path).data),
              !.checksums = ChecksumsOf(
                  IF op.hashes = NoHashes THEN DOMAIN e.checksums ELSE op.hashes,
                  FsGet(fs, op.path).data)]

\* the non-OPTIONAL entries for op.path that the loaded Manifests hold now
NonOptionalNow ==
    {ij \in Refs : /\ EntryAt(ij).tag \notin {"IGNORE", "DIST", "TIMESTAMP", "OPTIONAL"}
                   /\ ComposedPath(ij) = op.path}

\* update_entry_for_path returned for a file that exists and had at least
\* one non-OPTIONAL entry
UpdatedExisting ==
    /\ op.name = "update_entry_for_path" /\ op.exc = "none"
    /\ FsGet(fs, op.path).kind = "reg"
    /\ \E k \in Keys(loaded_manifests) : \E j \in ForPath(k) :
          EntriesBefore(k)[j].tag # "OPTIONAL"

\* C20 as stated: after update_entry_for_path(p) for an existing file with
\* entries, exactly one non-OPTIONAL entry for p remains, and every Manifest
\* whose entries changed is in updated_manifests.
C20_ExactlyOneRemains ==
    UpdatedExisting =>
        /\ Cardinality(NonOptionalNow) = 1
        /\ \A k \in Keys(loaded_manifests) :
              Get(loaded_manifests, k) # EntriesBefore(k) => k \in updated_manifests

\* what the Manifest k holds after the call: the OPTIONAL entries for the
\* path and the entries for other paths as they were, and of the other
\* entries for the path only the one that came first of all, recomputed
ExpectedAfter(k) ==
    LET B == EntriesBefore(k)
        gone == {j \in ForPath(k) : B[j].tag # "OPTIONAL" /\ ~FirstForPath(k, j)}
    IN Without([j \in DOMAIN B |->
                   IF FirstForPath(k, j) /\ B[j].tag # "OPTIONAL"
                   THEN Recomputed(B[j]) ELSE B[j]],
               gone)

\* C20, amended: update_entry_for_path(p) for an existing file goes through
\* the entries for p deepest Manifest first.  When the first of them is not
\* OPTIONAL it is updated in place (size and checksums recomputed, tag and
\* position kept) and every other non-OPTIONAL entry for p is removed, so
\* exactly one remains; when the first is OPTIONAL, every non-OPTIONAL entry
\* for p is removed and none remains.  OPTIONAL entries and the entries for
\* other paths stay as they were, and every Manifest whose entries changed
\* is in updated_manifests.
C20_FirstEntryDecides ==
    UpdatedExisting =>
        /\ \A k \in Keys(loaded_manifests) :
              /\ Get(loaded_manifests, k) = ExpectedAfter(k)
              /\ Get(loaded_manifests, k) # EntriesBefore(k) => k \in updated_manifests
        /\ Cardinality(NonOptionalNow)
              = IF \E k \in Keys(loaded_manifests) : \E j \in ForPath(k) :
                       FirstForPath(k, j) /\ EntriesBefore(k)[j].tag # "OPTIONAL"
                THEN 1 ELSE 0

\* a call for the rewritten file that updated the stale entry of
\* a/b/Manifest and removed the entries of the two Manifests above
C20_Witness ==
    /\ UpdatedExisting
    /\ \A k \in {TopManifest, SubManifest, DeepManifest} :
          /\ k \in Keys(loaded_manifests)
          /\ \E j \in ForPath(k) : EntriesBefore(k)[j].tag # "OPTIONAL"
    /\ {TopManifest, SubManifest, DeepManifest} \subseteq updated_manifests
    /\ \E ij \in NonOptionalNow :
          /\ loaded_manifests[ij[1]].k = DeepManifest
          /\ EntryAt(ij) # EntriesBefore(DeepManifest)[ij[2]]

\* update_entry_for_path returned for a file that is gone and had at least
\* one entry, OPTIONAL or not
UpdatedGone ==
    /\ op.name = "update_entry_for_path" /\ op.exc = "none"
    /\ FsGet(fs, op.path).kind = "absent"
    /\ \E k \in Keys(loaded_manifests) : ForPath(k) # {}

\* the non-OPTIONAL entries for op.path that the Manifest k had
NonOptionalForPath(k) ==
    {j \in ForPath(k) : EntriesBefore(k)[j].tag # "OPTIONAL"}

\* C21: update_entry_for_path(p) for a file that no longer exists and has
\* some entry removes every non-OPTIONAL entry for p from every applicable
\* loaded Manifest and leaves every other entry, the OPTIONAL entries for p
\* among them, as it was, so that no entry is created; the Manifests that
\* lost an entry, and no others, are added to updated_manifests.
C21_GoneFileEntriesRemoved ==
    UpdatedGone =>
        /\ \A k \in Keys(loaded_manifests) :
              Get(loaded_manifests, k)
                  = Without(EntriesBefore(k), NonOptionalForPath(k))
        /\ updated_manifests
              = op.dirty \union {k \in Keys(loaded_manifests) :
                                    NonOptionalForPath(k) # {}}

\* a call for the removed file that took entries out of the Manifest above
\* and the Manifest below an OPTIONAL entry for the file, and left that one
C21_Witness ==
    /\ UpdatedGone
    /\ op.dirty = {}
    /\ updated_manifests = {TopManifest, DeepManifest}
    /\ \E ij \in Refs : EntryAt(ij).tag = "OPTIONAL" /\ ComposedPath(ij) = op.path

\* an IGNORE entry of a loaded Manifest covers op.path
CoveredByIgnore ==
    \E k \in Keys(loaded_manifests) : \E j \in DOMAIN EntriesBefore(k) :
        /\ EntriesBefore(k)[j].tag = "IGNORE"
        /\ path_starts_with(op.path, join(dirname(k), EntriesBefore(k)[j].path))

\* update_entry_for_path was called with a hash set for a regular file that
\* no IGNORE entry covers and that no applicable Manifest has an entry for
UpdateOfNewFile ==
    /\ op.name = "update_entry_for_path"
    /\ op.hashes # NoHashes
    /\ FsGet(fs, op.path).kind = "reg"
    /\ ~CoveredByIgnore
    /\ \A k \in Keys(loaded_manifests) : ForPath(k) = {}

\* the Manifest k is the loaded Manifest with the longest directory prefix
\* of op.path
MostSpecific(k) ==
    /\ k \in Keys(loaded_manifests)
    /\ path_starts_with(op.path, dirname(k))
    /\ \A k2 \in Keys(loaded_manifests) :
          path_starts_with(op.path, dirname(k2))
              => StrLen(dirname(k2)) <= StrLen(dirname(k))

\* the entry that is created for op.path in the Manifest k
CreatedIn(k) ==
    Entry(op.new_entry_type,
          SubSeq(op.path, Len(dirname(k)) + 1, Len(op.path)),
          Size(FsGet(fs, op.path).data),
          ChecksumsOf(op.hashes, FsGet(fs, op.path).data))

\* C22: update_entry_for_path(p, new_tag) for an existing file without an
\* entry in any applicable Manifest appends exactly one entry of tag new_tag
\* to the loaded Manifest with the longest directory prefix of p, with the
\* path relative to the directory of that Manifest and the size and the
\* checksums of the file, and adds only that Manifest to updated_manifests.
C22_NewEntryInDeepest ==
    UpdateOfNewFile =>
        /\ op.exc = "none"
        /\ \A k \in Keys(loaded_manifests) :
              /\ Get(loaded_manifests, k)
                    = IF MostSpecific(k) THEN Append(EntriesBefore(k), CreatedIn(k))
                      ELSE EntriesBefore(k)
              /\ k \in updated_manifests <=> (k \in op.dirty \/ MostSpecific(k))

\* a MISC entry x was created in a/b/Manifest, the two Manifests above it
\* being loaded and left out of updated_manifests
C22_Witness ==
    /\ UpdateOfNewFile
    /\ op.new_entry_type = "MISC"
    /\ Keys(loaded_manifests) = {TopManifest, SubManifest, DeepManifest}
    /\ updated_manifests = {DeepManifest}
    /\ \E j \in DOMAIN Get(loaded_manifests, DeepManifest) :
          /\ Get(loaded_manifests, DeepManifest)[j].tag = "MISC"
          /\ Get(loaded_manifests, DeepManifest)[j].path = <<"x">>

(***************************************************************************)
(* update_entries_for_directory() on a tree with a dotfile, a directory    *)
(* whose name starts with a dot, and a directory a whose Manifest is       *)
(* registered in the top-level Manifest, unregistered, no Manifest at all, *)
(* or missing; the files a/x and y may be there or not.                    *)
(***************************************************************************)
TreeSubPool ==
    { EntryFor("DATA", <<"x">>, {"SHA256"}, Bytes(<<1>>)),
      EntryFor("OPTIONAL", <<"x">>, {}, Bytes(<<>>)),
      EntryFor("DATA", <<"y">>, {"SHA256"}, Bytes(<<1>>)) }

TreeRootPool(sub) ==
    { EntryFor("MANIFEST", SubManifest, {"SHA256"}, ManifestText(sub)),
      EntryFor("DATA", <<"a", "x">>, {"SHA256"}, Bytes(<<2>>)),
      IGNORE(<<"a">>),
      EntryFor("OPTIONAL", <<"y">>, {}, Bytes(<<>>)),
      EntryFor("DATA", <<"y">>, {"SHA256"}, Bytes(<<1>>)) }

TreeFs(root, subfile, ax, y) ==
    (<<>> :> Dir(1))
    @@ (TopManifest :> File("reg", 1, ManifestText(root)))
    @@ (<<".h">> :> Dir(1))
    @@ (<<".h", "x">> :> File("reg", 1, Bytes(<<1>>)))
    @@ (<<"a">> :> Dir(1))
    @@ (<<"a", ".h">> :> File("reg", 1, Bytes(<<1>>)))
    @@ (SubManifest :> subfile)
    @@ (<<"a", "x">> :> ax)
    @@ (<<"y">> :> y)

InitTree ==
    \E sub \in SeqsUpTo(TreeSubPool, MaxDictEntries) :
      \E root \in SeqsUpTo(TreeRootPool(sub), MaxDictEntries),
         subfile \in {Absent, File("reg", 1, ManifestText(sub)),
                      File("reg", 1, Bytes(<<3>>))},
         ax \in {Absent, File("reg", 1, Bytes(<<1>>))},
         y \in {Absent, File("reg", 1, Bytes(<<1>>))} :
          InitFrom(TreeFs(root, subfile, ax, y))

\* the names of the tree, in the order a directory lists them
TreeNames == <<".h", "Manifest", "a", "x", "y">>

UpdateEntriesForDirectory ==
    \E path \in {<<>>, <<"a">>}, hashes \in {NoHashes, {"SHA256"}},
       want \in {{}, {<<"a">>}} :
        LET W == update_entries_for_directory(CurWorld, path, hashes, want, TreeNames)
        IN
        /\ Becomes(W)
        /\ op' = [name |-> "update_entries_for_directory", path |-> path,
                  hashes |-> hashes, want |-> want, exc |-> W.exc,
                  before |-> loaded_manifests, dirty |-> updated_manifests]

NextTree == UpdateEntriesForDirectory

SpecTree == InitTree /\ [][NextTree]_vars

\* the entries for files that the loaded Manifests hold under op.path
FileRefs ==
    {ij \in Refs :
        /\ EntryAt(ij).tag \notin {"IGNORE", "OPTIONAL", "DIST", "TIMESTAMP"}
        /\ path_starts_with(ComposedPath(ij), op.path)}

\* the regular files under op.path that are no dotfiles, are not covered by
\* an IGNORE entry and are not a top-level Manifest name
FilesOnDisk ==
    {q \in DOMAIN fs :
        /\ fs[q].kind = "reg"
        /\ path_starts_with(q, op.path)
        /\ ~StartsWithDot(basename(q))
        /\ ~IgnoredAbove(q)
        /\ ~\E n \in Range(get_potential_compressed_names("Manifest")) : q = <<n>>}

\* the composed paths of the file entries the Manifest k had before the call
PathsBefore(k) ==
    {join(dirname(k), EntriesBefore(k)[j].path) :
        j \in {i \in DOMAIN EntriesBefore(k) :
                  EntriesBefore(k)[i].tag \notin {"IGNORE", "OPTIONAL", "DIST", "TIMESTAMP"}}}

\* the Manifest k gained or lost an entry in the call
GainedOrLost(k) ==
    \/ Len(Get(loaded_manifests, k)) # Len(EntriesBefore(k))
    \/ PathsBefore(k)
          # {ComposedPath(ij) : ij \in {r \in Refs : /\ loaded_manifests[r[1]].k = k
                                                     /\ EntryAt(r).tag \notin {"IGNORE", "OPTIONAL", "DIST", "TIMESTAMP"}}}

\* the files that are to have an entry: those of FilesOnDisk that are not
\* inside a directory whose name starts with a dot and have no OPTIONAL entry
FilesToEnter ==
    {q \in FilesOnDisk :
        /\ \A k \in 1..Len(q) : ~StartsWithDot(q[k])
        /\ ~\E ij \in Refs : EntryAt(ij).tag = "OPTIONAL" /\ ComposedPath(ij) = q}

\* the composed paths of the file entries under op.path, the MANIFEST entries
\* of Manifests that are loaded and not written yet left out
EnteredPaths ==
    {q \in {ComposedPath(ij) : ij \in FileRefs} :
        FsGet(fs, q).kind # "absent" \/ q \notin Keys(loaded_manifests)}

\* C23: after update_entries_for_directory(p) returns, p not being covered
\* by an IGNORE entry, the composed paths of the file entries under p are
\* exactly the regular files under p that are to have one (dotfiles, files
\* in dot-directories, files covered by an IGNORE entry, files with an
\* OPTIONAL entry and top-level Manifest names left out), each of these
\* files has exactly one entry, and every Manifest that gained or lost an
\* entry is in updated_manifests.
C23_EntriesMatchDisk ==
    (op.name = "update_entries_for_directory" /\ op.exc = "none"
     /\ ~IgnoredAbove(op.path)) =>
        /\ EnteredPaths = FilesToEnter
        /\ \A q \in FilesToEnter :
              Cardinality({ij \in FileRefs : ComposedPath(ij) = q}) = 1
        /\ \A k \in Keys(loaded_manifests) : GainedOrLost(k) => k \in updated_manifests

(***************************************************************************)
(* open_potentially_compressed_path() on short file names, and the with    *)
(* statement around the stream stack it returns.                           *)
(***************************************************************************)
\* the longest file name
MaxNameLen == 3

NameChars == {"/", ".", "gz", "bz2", "lzma", "xz", "t"}

OpenNames == SeqsUpTo(NameChars, MaxNameLen) \ {<<>>}

\* what the modules and the streams do: all is well, a module could not be
\* imported, or io.TextIOWrapper() raises
OpenEnvs ==
    { [bz2 |-> TRUE, lzma |-> TRUE, wrap_fails |-> FALSE],
      [bz2 |-> FALSE, lzma |-> TRUE, wrap_fails |-> FALSE],
      [bz2 |-> TRUE, lzma |-> FALSE, wrap_fails |-> FALSE],
      [bz2 |-> TRUE, lzma |-> TRUE, wrap_fails |-> TRUE] }

\* the call that is going to be made
InitOpen ==
    \E path \in OpenNames, mode \in {"r", "wb"}, kwargs \in BOOLEAN, env \in OpenEnvs :
        /\ fs = (<<>> :> Dir(1))
        /\ loaded_manifests = <<>>
        /\ updated_manifests = {}
        /\ manifest_device = NoDev
        /\ files = <<>>
        /\ op = [name |-> "init", path |-> path, mode |-> mode, kwargs |-> kwargs,
                 env |-> env]

OpenPotentiallyCompressedPath ==
    /\ op.name = "init"
    /\ \E fail \in 0..2 :
         LET r == open_potentially_compressed_path(
                      op.path, op.mode, op.kwargs,
                      [bz2 |-> op.env.bz2, lzma |-> op.env.lzma,
                       wrap_fails |-> op.env.wrap_fails, fail |-> fail])
         IN /\ files' = r.files
            /\ op' = [op EXCEPT !.name = "open"] @@ [exc |-> r.exc]
    /\ UNCHANGED <<fs, loaded_manifests, updated_manifests, manifest_device>>

\* the with statement is left, by the end of its body or by an exception
\* raised there: __exit__() of the FileStack, or of the file
Exit ==
    /\ op.name = "open" /\ op.exc = "none"
    /\ \E raised \in BOOLEAN, fail \in 0..Len(files) :
         /\ files' = close(files, fail).files
         /\ op' = [op EXCEPT !.name = "exit"]
                  @@ [raised |-> raised, close_exc |-> close(files, fail).exc]
    /\ UNCHANGED <<fs, loaded_manifests, updated_manifests, manifest_device>>

NextOpen == OpenPotentiallyCompressedPath \/ Exit

SpecOpen == InitOpen /\ [][NextOpen]_vars

\* the final extension of op.path is none of the four known ones
UnknownExt == splitext(op.path).ext \notin KnownExts

ModuleMissing ==
    \/ splitext(op.path).ext = <<".", "bz2">> /\ ~op.env.bz2
    \/ splitext(op.path).ext \in {<<".", "lzma">>, <<".", "xz">>} /\ ~op.env.lzma

C25_AllStreamsClosed ==
    op.name = "exit" =>
        /\ \A i \in DOMAIN files : files[i].state # "open"
        /\ \A i \in DOMAIN files : files[i].at = Len(files) - i + 1

(***************************************************************************)
(* The device of the loader on a tree whose directories a, b and c may be  *)
(* mount points: a/Manifest may be registered in the top-level Manifest,   *)
(* b/Manifest is not, and c has no Manifest.                               *)
(***************************************************************************)
DevSub == <<EntryFor("DATA", <<"x">>, {"SHA256"}, Bytes(<<1>>))>>

DevRootPool ==
    { EntryFor("MANIFEST", SubManifest, {"SHA256"}, ManifestText(DevSub)),
      EntryFor("DATA", <<"a", "x">>, {"SHA256"}, Bytes(<<1>>)),
      IGNORE(<<"c">>) }

DevFs(root, adev, bdev, cdev) ==
    (<<>> :> Dir(1))
    @@ (TopManifest :> File("reg", 1, ManifestText(root)))
    @@ (<<"a">> :> Dir(adev))
    @@ (SubManifest :> File("reg", adev, ManifestText(DevSub)))
    @@ (<<"a", "x">> :> File("reg", adev, Bytes(<<1>>)))
    @@ (<<"b">> :> Dir(bdev))
    @@ (<<"b", "Manifest">> :> File("reg", bdev, ManifestText(<<>>)))
    @@ (<<"c">> :> Dir(cdev))

InitDev ==
    \E root \in SeqsUpTo(DevRootPool, MaxDictEntries),
       adev \in {1, 2}, bdev \in {1, 2}, cdev \in {1, 2} :
        InitFrom(DevFs(root, adev, bdev, cdev))

\* the names of the tree, in the order a directory lists them
DevNames == <<"Manifest", "a", "b", "c", "x">>

LoadManifestsForPathDev ==
    \E path \in {<<>>, <<"a", "x">>}, recursive \in BOOLEAN :
        LET W == load_manifests_for_path(CurWorld, path, recursive) IN
        /\ Becomes(W)
        /\ op' = [name |-> "load_manifests_for_path", path |-> path,
                  exc |-> W.exc, device |-> manifest_device]

CreateManifestDev ==
    \E path \in {<<"b", "Manifest">>, <<"c", "Manifest">>} :
        LET W == create_manifest(CurWorld, path) IN
        /\ Becomes(W)
        /\ op' = [name |-> "create_manifest", path |-> path,
                  exc |-> W.exc, device |-> manifest_device]

LoadUnregisteredManifestsDev ==
    \E path \in {<<>>, <<"b">>} :
        LET r == load_unregistered_manifests(CurWorld, path, DevNames) IN
        /\ Becomes(r.W)
        /\ op' = [name |-> "load_unregistered_manifests", path |-> path,
                  exc |-> r.W.exc, device |-> manifest_device]

NextDev == LoadManifestsForPathDev \/ CreateManifestDev \/ LoadUnregisteredManifestsDev

SpecDev == InitDev /\ [][NextDev]_vars

\* C26: in every reachable state after construction, manifest_device equals
\* the st_dev of the top-level Manifest: loading sub-Manifests, creating
\* Manifests and scanning for unregistered Manifests never change it.
C26_DeviceOfTopManifest ==
    manifest_device = FsGet(fs, TopManifest).dev

\* C27 as stated: once a relative Manifest path is a key of loaded_manifests
\* it remains a key after every later operation, save_manifests with a
\* compress_watermark included: the key set of loaded_manifests only grows.
C27_KeysOnlyGrow ==
    [][Keys(loaded_manifests) \subseteq Keys(loaded_manifests')]_vars

\* the key k left loaded_manifests in this step because save_manifests
\* renamed the Manifest, which is loaded under its new name
RenamedAway(k) ==
    /\ op'.name = "save_manifests"
    /\ op'.compress_watermark # NoWatermark
    /\ \E x \in Range(op'.renamed) :
          /\ x.k = k
          /\ x.v = OtherName(k)
          /\ x.v \in Keys(loaded_manifests')
          /\ Len(Get(loaded_manifests', x.v)) = Len(Get(loaded_manifests, k))
          /\ FsGet(fs', k).kind = "absent"

\* C27, amended: a key of loaded_manifests remains a key after every later
\* operation, except that save_manifests with a compress_watermark replaces
\* the key of each Manifest it renames (compresses or uncompresses) by the
\* new name, under which the Manifest stays loaded; no other operation
\* removes a key.
C27_KeysGrowOrAreRenamed ==
    [][\A k \in Keys(loaded_manifests) \ Keys(loaded_manifests') : RenamedAway(k)]_vars

\* save_manifests has renamed a/Manifest to a/Manifest.gz: the old name is
\* no key any more, the new one is
C27_Witness ==
    /\ op.name = "save_manifests"
    /\ \E x \in Range(op.renamed) : x.k = SubManifest
    /\ SubManifest \notin Keys(loaded_manifests)
    /\ OtherName(SubManifest) \in Keys(loaded_manifests)

\* the entries of the loaded Manifest k differ from what its file holds
DiffersFromDisk(k) ==
    \/ FsGet(fs, k).kind = "absent"
    \/ ReadManifest(k, FsGet(fs, k)).exc # "none"
    \/ ReadManifest(k, FsGet(fs, k)).entries # Get(loaded_manifests, k)

\* C28: in every reachable state, each loaded Manifest whose in-memory
\* entries differ from the content of its file on disk is in
\* updated_manifests; when updated_manifests is empty, memory and disk
\* agree for every loaded Manifest.
C28_DirtyCoversDifferences ==
    \A k \in Keys(loaded_manifests) : DiffersFromDisk(k) => k \in updated_manifests

\* entry ij of the Manifests lm
DupAt(lm, ij) == lm[ij[1]].m[ij[2]]

\* two of the entries D of lm have different values for a hash they share
Collide(lm, D) ==
    \E a \in D, b \in D :
        \E h \in DOMAIN DupAt(lm, a).checksums \intersect DOMAIN DupAt(lm, b).checksums :
            DupAt(lm, a).checksums[h] # DupAt(lm, b).checksums[h]

\* no two of the entries D of lm share a hash
DisjointSums(lm, D) ==
    \A a \in D, b \in D :
        a # b => DOMAIN DupAt(lm, a).checksums \intersect DOMAIN DupAt(lm, b).checksums = {}

\* two of the entries D of lm are of different tag classes
TagsDisagree(lm, D) ==
    \E a \in D, b \in D :
        /\ DupAt(lm, a).tag # DupAt(lm, b).tag
        /\ ~({DupAt(lm, a).tag, DupAt(lm, b).tag} \subseteq COMPATIBLE_TAGS)

\* C29 as stated: get_deduplicated_file_entry_dict_for_update treats a
\* colliding value on a hash shared by two duplicate entries as a hard
\* error (it raises and merges nothing), while duplicates with disjoint
\* hash sets are merged into the kept entry.
C29_CollisionIsHardError ==
    op.name = "get_deduplicated_file_entry_dict_for_update" =>
        \A full \in DescribedIn(op.loaded, op.path) :
            LET D == DuplicatesOf(op.loaded, op.path, full) IN
            /\ Collide(op.loaded, D) =>
                  /\ op.exc # "none"
                  /\ \A i \in DOMAIN op.loaded :
                        Get(loaded_manifests, op.loaded[i].k) = op.loaded[i].m
            /\ (op.exc = "none" /\ DisjointSums(op.loaded, D)) => KeptDeepest(full, D)

\* the loop of the deduplication comes to entry x of lm before entry y:
\* deeper Manifests first, and the entries of a Manifest in file order
GoneThroughBefore(lm, x, y) ==
    \/ StrLen(dirname(lm[x[1]].k)) > StrLen(dirname(lm[y[1]].k))
    \/ /\ StrLen(dirname(lm[x[1]].k)) = StrLen(dirname(lm[y[1]].k))
       /\ \/ x[1] < y[1]
          \/ x[1] = y[1] /\ x[2] < y[2]

\* the value for the hash h of the last of the entries D of lm that has one
LastSum(lm, D, h) ==
    LET H == {ij \in D : h \in DOMAIN DupAt(lm, ij).checksums}
        last == CHOOSE x \in H : \A y \in H : y = x \/ GoneThroughBefore(lm, y, x)
    IN DupAt(lm, last).checksums[h]

\* the entry of the deepest Manifest is the only one left for the path
\* full, with the hashes of all the duplicates D, each with the value of the
\* last duplicate that has it
MergedLastWins(full, D) ==
    /\ \E k \in DOMAIN op.ret :
          /\ op.ret[k].k = full
          /\ StrLen(dirname(op.ret[k].mpath))
                = Max({StrLen(dirname(op.loaded[ij[1]].k)) : ij \in D})
          /\ DOMAIN op.ret[k].e.checksums
                = UNION {DOMAIN DupAt(op.loaded, ij).checksums : ij \in D}
          /\ \A h \in DOMAIN op.ret[k].e.checksums :
                op.ret[k].e.checksums[h] = LastSum(op.loaded, D, h)
          /\ \A ij \in DuplicatesOf(loaded_manifests, op.path, full) :
                /\ loaded_manifests[ij[1]].k = op.ret[k].mpath
                /\ loaded_manifests[ij[1]].m[ij[2]] = op.ret[k].e
    /\ Cardinality(DuplicatesOf(loaded_manifests, op.path, full)) = 1

\* C29, amended: get_deduplicated_file_entry_dict_for_update raises
\* ManifestIncompatibleEntry only for duplicates of different tag classes; a
\* colliding value on a hash shared by two duplicates is no error: when the
\* call returns, the entry of the deepest Manifest is kept for each path, the
\* other duplicates are removed, and the kept entry has the hashes of all
\* of them, a shared hash with the value of the duplicate gone through last
\* and disjoint hash sets merged.
C29_CollisionIsMerged ==
    op.name = "get_deduplicated_file_entry_dict_for_update" =>
        /\ op.exc = "ManifestIncompatibleEntry" =>
              \E full \in DescribedIn(op.loaded, op.path) :
                  TagsDisagree(op.loaded, DuplicatesOf(op.loaded, op.path, full))
        /\ op.exc = "none" =>
              \A full \in DescribedIn(op.loaded, op.path) :
                  MergedLastWins(full, DuplicatesOf(op.loaded, op.path, full))

\* the call returned for a path with two entries that collide on a hash
C29_Witness ==
    /\ op.name = "get_deduplicated_file_entry_dict_for_update"
    /\ op.exc = "none"
    /\ \E full \in DescribedIn(op.loaded, op.path) :
          /\ Collide(op.loaded, DuplicatesOf(op.loaded, op.path, full))
          /\ MergedLastWins(full, DuplicatesOf(op.loaded, op.path, full))

(***************************************************************************)
(* load_manifests_for_path() on Manifests that refer to themselves, to     *)
(* each other (Manifest and Manifest.files, in one directory) and several  *)
(* times to a/Manifest.                                                    *)
(***************************************************************************)
\* a MANIFEST entry for a Manifest that is loaded before the entry is met:
\* its size and checksums are never compared
BackRef(path) == EntryFor("MANIFEST", path, {"SHA256"}, Bytes(<<>>))

CycleSubs == {<<>>, <<BackRef(<<"Manifest">>)>>}

CycleFilesPool(sub) ==
    { BackRef(<<"Manifest">>),
      BackRef(<<"Manifest.files">>),
      EntryFor("MANIFEST", SubManifest, {"SHA256"}, ManifestText(sub)) }

CycleRootPool(sub, fil) ==
    { BackRef(<<"Manifest">>),
      EntryFor("MANIFEST", FilesManifest, {"SHA256"}, ManifestText(fil)),
      EntryFor("MANIFEST", SubManifest, {"SHA256"}, ManifestText(sub)),
      EntryFor("MANIFEST", SubManifest, {"SHA512"}, ManifestText(sub)) }

CycleFs(root, fil, sub) ==
    (<<>> :> Dir(1)) @@ (<<"a">> :> Dir(1))
    @@ (TopManifest :> File("reg", 1, ManifestText(root)))
    @@ (FilesManifest :> File("reg", 1, ManifestText(fil)))
    @@ (SubManifest :> File("reg", 1, ManifestText(sub)))
    @@ (<<"a", "x">> :> File("reg", 1, Bytes(<<1>>)))

\* the most MANIFEST entries of the top-level Manifest
MaxRefs == 2

InitCycle ==
    \E sub \in CycleSubs :
      \E fil \in SeqsUpTo(CycleFilesPool(sub), MaxDictEntries) :
        \E root \in SeqsUpTo(CycleRootPool(sub, fil), MaxRefs) :
            InitFrom(CycleFs(root, fil, sub))

LoadManifestsForPathCycle ==
    \E path \in {<<>>, <<"x">>, <<"a", "x">>}, recursive \in BOOLEAN :
        LET W == load_manifests_for_path(CurWorld, path, recursive) IN
        /\ Becomes(W)
        /\ op' = [name |-> "load_manifests_for_path", path |-> path,
                  recursive |-> recursive, exc |-> W.exc,
                  before |-> Keys(loaded_manifests),
                  loads |-> LoadCalls(CurWorld, path, recursive)]

NextCycle == LoadManifestsForPathCycle

SpecCycle == InitCycle /\ [][NextCycle]_vars

\* C30: load_manifests_for_path terminates on Manifests with a MANIFEST
\* entry for themselves, Manifests that refer to each other in a cycle and
\* sub-Manifests referenced by several entries, and it never loads again a
\* Manifest that is already in loaded_manifests.
C30_NeverLoadedAgain ==
    op.name = "load_manifests_for_path" =>
        /\ \A i \in DOMAIN op.loads : op.loads[i] \notin op.before
        /\ \A i \in DOMAIN op.loads, j \in DOMAIN op.loads :
              i # j => op.loads[i] # op.loads[j]

(***************************************************************************)
(* Queries for single paths on a tree with Manifests in the directories a, *)
(* a/b and b, which the top-level Manifest and a/Manifest may refer to.    *)
(***************************************************************************)
SideManifest == <<"b", "Manifest">>

LazyLeaf == <<EntryFor("DATA", <<"x">>, {"SHA256"}, Bytes(<<1>>))>>

LazyMidPool ==
    { EntryFor("MANIFEST", <<"b", "Manifest">>, {"SHA256"}, ManifestText(LazyLeaf)),
      EntryFor("DATA", <<"x">>, {"SHA256"}, Bytes(<<1>>)) }

LazyRootPool(mid) ==
    { EntryFor("MANIFEST", SubManifest, {"SHA256"}, ManifestText(mid)),
      EntryFor("MANIFEST", SideManifest, {"SHA256"}, ManifestText(LazyLeaf)),
      EntryFor("MANIFEST", DeepManifest, {"SHA256"}, ManifestText(LazyLeaf)) }

LazyDist == EntryFor("DIST", <<"d">>, {"SHA256"}, Bytes(<<1>>))

LazyFs(root, mid) ==
    DictTree(root, mid, LazyLeaf)
    @@ (<<"b">> :> Dir(1))
    @@ (SideManifest :> File("reg", 1, ManifestText(LazyLeaf)))
    @@ (<<"b", "x">> :> File("reg", 1, Bytes(<<1>>)))
    @@ (<<"a", "x">> :> File("reg", 1, Bytes(<<1>>)))

InitLazy ==
    \E mid \in SeqsUpTo(LazyMidPool, MaxDictEntries) :
        \E root \in SeqsUpTo(LazyRootPool(mid), MaxEntries) :
            InitFrom(LazyFs(root \o <<LazyDist>>, mid))

LazyPaths == {<<"a", "x">>, DeepFile, <<"b", "x">>}

FindPathEntryLazy ==
    \E path \in LazyPaths :
        LET r == find_path_entry(CurWorld, path) IN
        /\ Becomes(r.W)
        /\ op' = [name |-> "find_path_entry", path |-> path, exc |-> r.W.exc,
                  before |-> Keys(loaded_manifests),
                  loads |-> LoadCalls(CurWorld, path, FALSE)]

UpdateEntryForPathLazy ==
    \E path \in {<<"a", "x">>} :
        LET W == update_entry_for_path(CurWorld, path, "DATA", {"SHA256"}) IN
        /\ Becomes(W)
        /\ op' = [name |-> "update_entry_for_path", path |-> path, exc |-> W.exc,
                  before |-> Keys(loaded_manifests),
                  loads |-> LoadCalls(CurWorld, path, FALSE)]

FindDistEntryLazy ==
    \E relpath \in {<<>>, <<"a", "b">>} :
        LET r == find_dist_entry(CurWorld, <<"d">>, relpath) IN
        /\ Becomes(r.W)
        /\ op' = [name |-> "find_dist_entry", path |-> relpath, exc |-> r.W.exc,
                  before |-> Keys(loaded_manifests),
                  loads |-> LoadCalls(CurWorld, WithSlash(relpath), FALSE)]

NextLazy == FindPathEntryLazy \/ UpdateEntryForPathLazy \/ FindDistEntryLazy

SpecLazy == InitLazy /\ [][NextLazy]_vars

\* C31: a non-recursive query for p (find_path_entry, update_entry_for_path,
\* find_dist_entry) adds to loaded_manifests only Manifests whose directory
\* is a prefix of p; a sub-Manifest whose directory is not an ancestor of p
\* is neither opened nor registered by it.
C31_LazyLoading ==
    op.name \in {"find_path_entry", "update_entry_for_path", "find_dist_entry"} =>
        /\ \A k \in Keys(loaded_manifests) \ op.before :
              path_starts_with(op.path, dirname(k))
        /\ \A i \in DOMAIN op.loads : path_starts_with(op.path, dirname(op.loads[i]))
        /\ op.before \subseteq Keys(loaded_manifests)

\* find_path_entry('a/x') loaded a/Manifest and left b/Manifest and
\* a/b/Manifest, which loaded Manifests refer to, alone
C31_Witness ==
    /\ op.name = "find_path_entry" /\ op.exc = "none"
    /\ op.path = <<"a", "x">>
    /\ op.before = {TopManifest}
    /\ op.loads = <<SubManifest>>
    /\ Keys(loaded_manifests) = {TopManifest, SubManifest}
    /\ \E e \in Range(Get(loaded_manifests, TopManifest)) :
          e.tag = "MANIFEST" /\ e.path = SideManifest
    /\ \E e \in Range(Get(loaded_manifests, SubManifest)) :
          e.tag = "MANIFEST" /\ e.path = <<"b", "Manifest">>

(***************************************************************************)
(* load_manifest() for a/Manifest, which may be missing, a Manifest, or a  *)
(* file that does not parse, with entries that match the file or do not.   *)
(***************************************************************************)
OneSub == <<EntryFor("DATA", <<"x">>, {"SHA256"}, Bytes(<<1>>))>>

\* a file that is no Manifest
Garbage == Bytes(<<3>>)

\* MANIFEST entries for a/Manifest: of the Manifest, of the file that does
\* not parse, of another text of the same size, and of another size
OneEntries ==
    { EntryFor("MANIFEST", SubManifest, {"SHA256"}, ManifestText(OneSub)),
      EntryFor("MANIFEST", SubManifest, {"SHA256"}, Garbage),
      EntryFor("MANIFEST", SubManifest, {"SHA256"}, Bytes(<<4>>)),
      EntryFor("MANIFEST", SubManifest, {"SHA256"}, Bytes(<<1, 1, 1, 1, 1>>)) }

OneFs(root, subfile) ==
    (<<>> :> Dir(1)) @@ (<<"a">> :> Dir(2))
    @@ (TopManifest :> File("reg", 1, ManifestText(root)))
    @@ (SubManifest :> subfile)
    @@ (<<"a", "x">> :> File("reg", 2, Bytes(<<1>>)))

InitOne ==
    \E root \in SeqsUpTo(OneEntries, MaxEntries),
       subfile \in {Absent, File("reg", 2, ManifestText(OneSub)), File("reg", 2, Garbage)} :
        InitFrom(OneFs(root, subfile))

LoadManifest ==
    \E verify_entry \in OneEntries \union {None}, allow_create \in BOOLEAN :
        LET W == load_manifest(CurWorld, SubManifest, verify_entry, allow_create) IN
        /\ Becomes(W)
        /\ op' = [name |-> "load_manifest", relpath |-> SubManifest,
                  verify_entry |-> verify_entry, allow_create |-> allow_create,
                  exc |-> W.exc,
                  before |-> <<loaded_manifests, updated_manifests, manifest_device>>]

LoadManifestsForPathOne ==
    \E path \in {<<"a", "x">>}, recursive \in BOOLEAN :
        LET W == load_manifests_for_path(CurWorld, path, recursive) IN
        /\ Becomes(W)
        /\ op' = [name |-> "load_manifests_for_path", path |-> path,
                  exc |-> W.exc,
                  before |-> <<loaded_manifests, updated_manifests, manifest_device>>]

NextOne == LoadManifest \/ LoadManifestsForPathOne

SpecOne == InitOne /\ [][NextOne]_vars

\* the size and the checksums of the entry e are those of the file f
MatchesEntry(f, e) ==
    /\ f.kind = "reg"
    /\ Size(f.data) = e.size
    /\ \A h \in DOMAIN e.checksums : Hash(h, f.data) = e.checksums[h]

\* the loader's attributes are those before the call
NothingRegistered ==
    <<loaded_manifests, updated_manifests, manifest_device>> = op.before

\* C32: load_manifest(rel, verify_entry) verifies the file against the
\* entry before parsing it: on a mismatch it raises ManifestMismatch and
\* leaves loaded_manifests, updated_manifests and manifest_device
\* unchanged; a parse error or a missing file without allow_create likewise
\* registers nothing, so a sub-Manifest reached through a MANIFEST entry is
\* never registered unless it matched that entry.
C32_VerifiedBeforeRegistered ==
    /\ op.name = "load_manifest" =>
          /\ (~IsNone(op.verify_entry)
                  /\ ~MatchesEntry(FsGet(fs, op.relpath), op.verify_entry))
                => op.exc = "ManifestMismatch" /\ NothingRegistered
          /\ (FsGet(fs, op.relpath).kind = "absent" /\ ~op.allow_create)
                => op.exc # "none" /\ NothingRegistered
          /\ (FsGet(fs, op.relpath).kind # "absent"
                  /\ FsGet(fs, op.relpath).data[1] # "manifest")
                => op.exc # "none" /\ NothingRegistered
          /\ op.exc # "none" => NothingRegistered
    /\ op.name = "load_manifests_for_path" =>
          \A k \in Keys(loaded_manifests) \ Keys(op.before[1]) :
              \E e \in Range(Get(loaded_manifests, TopManifest)) :
                  /\ e.tag = "MANIFEST" /\ e.path = k
                  /\ MatchesEntry(FsGet(fs, k), e)

\* load_manifest() met a file that does not parse with an entry for another
\* file of the same size, and raised ManifestMismatch
C32_Witness ==
    /\ op.name = "load_manifest"
    /\ op.exc = "ManifestMismatch"
    /\ FsGet(fs, op.relpath).kind = "reg"
    /\ FsGet(fs, op.relpath).data = Garbage
    /\ op.verify_entry.size = Size(Garbage)
    /\ NothingRegistered

\* the stages of verify_path that the call op passed: the expected and the
\* actual existence, the device and the file type
ExistencePassed ==
    /\ ~(~IsNone(op.e) /\ op.e.tag = "IGNORE")
    /\ ~IsNone(op.e) /\ op.e.tag # "OPTIONAL"
    /\ fs[op.path].kind # "absent"

DevicePassed ==
    ExistencePassed /\ (op.expected_dev = NoDev \/ fs[op.path].dev = op.expected_dev)

TypePassed ==
    DevicePassed /\ fs[op.path].kind = "reg" /\ ~fs[op.path].enxio

\* C33: verify_path reports only the first failing stage, in the order
\* IGNORE shortcut, existence, device, type, stat size, checksums: an
\* existence mismatch gives exactly [('__exists__', expected, actual)],
\* expected being False for an OPTIONAL entry or none; a non-regular or
\* unopenable file gives exactly [('__type__', 'regular file', actual)]; a
\* non-zero stat size unequal to the entry size gives exactly
\* [('__size__', expected, actual)] without the file being read; and the
\* returned flag is True iff the diff is empty.
C33_FirstFailingStage ==
    op.name = "verify_path" =>
        LET f == fs[op.path]
            expected == ~IsNone(op.e) /\ op.e.tag # "OPTIONAL"
            actual == f.kind # "absent"
            ignore == ~IsNone(op.e) /\ op.e.tag = "IGNORE"
        IN
        /\ ignore => op.res = Returned(TRUE, <<>>)
        /\ (~ignore /\ expected # actual) =>
              op.res = Returned(FALSE, << <<"__exists__", expected, actual>> >>)
        /\ (ExistencePassed /\ ~DevicePassed) => op.res.exc = "ManifestCrossDevice"
        /\ (DevicePassed /\ ~TypePassed) =>
              /\ op.res = Returned(FALSE, << <<"__type__", "regular file", TypeName(f)>> >>)
              /\ TypeName(f) # "regular file"
        /\ (TypePassed /\ StatSize(f) # 0 /\ StatSize(f) # op.e.size) =>
              op.res = Returned(FALSE, << <<"__size__", op.e.size, StatSize(f)>> >>)
        /\ op.res.exc = "none" => (op.res.ok <=> op.res.diff = <<>>)
        /\ (/\ op.res.exc = "none"
            /\ \E i \in DOMAIN op.res.diff :
                  op.res.diff[i][1] \in {"__exists__", "__type__"})
              => Len(op.res.diff) = 1

\* a regular file whose stat size and whose SHA256 both differ from the
\* entry's was reported with the size alone
C33_Witness ==
    /\ op.name = "verify_path"
    /\ TypePassed
    /\ StatSize(fs[op.path]) \notin {0, op.e.size}
    /\ "SHA256" \in DOMAIN op.e.checksums
    /\ Hash("SHA256", fs[op.path].data) # op.e.checksums["SHA256"]
    /\ op.res.diff = << <<"__size__", op.e.size, StatSize(fs[op.path])>> >>

(***************************************************************************)
(* The entries assert_directory_verifies() has left when the walk is over. *)
(***************************************************************************)
\* the walk met no directory and no file at the path k
NotMetOnDisk(k) ==
    ~\E i \in DOMAIN op.log : op.log[i].path = k /\ op.log[i].kind \in {"dir", "file"}

\* the events of the loop over the entries left for the path k
LeftEvents(k) ==
    {i \in DOMAIN op.log : op.log[i].path = k /\ op.log[i].kind = "missing"}

\* C34: a call of assert_directory_verifies that returns has verified every
\* entry of the composed set whose path the walk did not meet exactly once,
\* after the walk; and whenever a call comes to verify such an entry for a
\* file that is not there, an entry that is OPTIONAL or IGNORE leads to no
\* handler call and any other to one call with the diff
\* [('__exists__', True, False)]: of warn_handler for a MISC entry, of
\* fail_handler for DATA, EBUILD, AUX and MANIFEST.
C34_MissingThroughHandlers ==
    op.name = "assert_directory_verifies" =>
        /\ op.exc = "none" =>
              \A k \in DKeys(op.entry_dict) :
                  NotMetOnDisk(k) => Cardinality(LeftEvents(k)) = 1
        /\ \A i \in DOMAIN op.log :
              LET ev == op.log[i] IN
              (ev.kind = "missing" /\ FsGet(fs, ev.path).kind = "absent") =>
                  /\ NotMetOnDisk(ev.path)
                  /\ Cardinality(LeftEvents(ev.path)) = 1
                  /\ IF ev.e.tag \in {"OPTIONAL", "IGNORE"}
                     THEN ev.h = "none" /\ ev.exc = "none"
                     ELSE /\ ev.diff = ExistsDiff(TRUE, FALSE)
                          /\ ev.h = IF ev.e.tag = "MISC" THEN WarnHandlerName
                                    ELSE "fail_handler"

\* a call with a warn_handler of its own that returned after it had found
\* two files missing: one with an OPTIONAL entry, for which it called no
\* handler, and one with a MISC entry, which went to warn_handler
C34_Witness ==
    /\ op.name = "assert_directory_verifies" /\ op.exc = "none"
    /\ op.warn # "default"
    /\ \E i \in DOMAIN op.log, j \in DOMAIN op.log :
          /\ op.log[i].kind = "missing" /\ op.log[j].kind = "missing"
          /\ FsGet(fs, op.log[i].path).kind = "absent"
          /\ FsGet(fs, op.log[j].path).kind = "absent"
          /\ op.log[i].e.tag = "OPTIONAL" /\ op.log[i].h = "none"
          /\ op.log[j].e.tag = "MISC" /\ op.log[j].h = "warn_handler"
          /\ op.log[j].diff = ExistsDiff(TRUE, FALSE)

(***************************************************************************)
(* What save_manifests(force=False) writes.                                *)
(***************************************************************************)
\* the Manifests of lm that hold a MANIFEST entry for a path of S
HoldersOf(lm, S) ==
    {lm[i].k : i \in {i \in DOMAIN lm :
                        \E j \in DOMAIN lm[i].m :
                            /\ lm[i].m[j].tag = "MANIFEST"
                            /\ FullPath(lm[i], lm[i].m[j]) \in S}}

RECURSIVE AncestorsOf(_, _, _)
\* the Manifests of lm that hold such an entry directly or through at most
\* n Manifests
AncestorsOf(lm, S, n) ==
    IF n = 0 \/ S = {} THEN {}
    ELSE HoldersOf(lm, S) \union AncestorsOf(lm, HoldersOf(lm, S), n - 1)

\* the Manifests a call of save_manifests(force=False) may write: those of
\* updated_manifests at its start, and those that hold, as they are loaded
\* before or after the call, a MANIFEST entry for a Manifest it wrote
MayBeWritten ==
    updated_manifests
    \union AncestorsOf(loaded_manifests, op'.written, Len(loaded_manifests))
    \union AncestorsOf(loaded_manifests', op'.written, Len(loaded_manifests'))

\* the Manifest k is on disk and in memory after the step as before
LeftAlone(k) ==
    /\ FsGet(fs', k) = FsGet(fs, k)
    /\ k \in Keys(loaded_manifests) =>
          /\ k \in Keys(loaded_manifests')
          /\ Get(loaded_manifests', k) = Get(loaded_manifests, k)

NameAtStart(p) ==
    IF \E x \in Range(op'.renamed) : x.v = p
    THEN (CHOOSE x \in Range(op'.renamed) : x.v = p).k
    ELSE p

RegistersIn(lm, mm, k) ==
    \E j \in DOMAIN Get(lm, mm) :
        /\ Get(lm, mm)[j].tag = "MANIFEST"
        /\ join(dirname(mm), Get(lm, mm)[j].path) = k

Registers(mm, k) == RegistersIn(loaded_manifests, mm, k)

\* the Manifests under op.path that the call has discovered or created:
\* they were not loaded before the call and no Manifest had an entry for
\* them
NewSubManifests ==
    {k \in Keys(loaded_manifests) \ Keys(op.before) :
        /\ path_starts_with(k, op.path)
        /\ \A mm \in Keys(op.before) : ~RegistersIn(op.before, mm, k)}

\* the directory of the Manifest mm is a strict prefix of the directory d
StrictlyAbove(mm, d) ==
    /\ dirname(mm) # d
    /\ path_starts_with(d, dirname(mm))

\* C36: update_entries_for_directory never runs past the bottom of its
\* Manifest stack; when it returns, every sub-Manifest it has discovered or
\* created in a directory d is registered, with a path relative to the
\* directory of the Manifest that holds the entry, in a Manifest whose
\* directory is a strict prefix of d and which is in updated_manifests, and
\* in no Manifest located in d.
C36_RegisteredAbove ==
    op.name = "update_entries_for_directory" =>
        /\ op.exc # "IndexError"
        /\ op.exc = "none" =>
              \A k \in NewSubManifests :
                  /\ \E mm \in Keys(loaded_manifests) :
                        /\ StrictlyAbove(mm, dirname(k))
                        /\ Registers(mm, k)
                        /\ mm \in updated_manifests
                  /\ \A mm \in Keys(loaded_manifests) :
                        dirname(mm) = dirname(k) => ~Registers(mm, k)

(***************************************************************************)
(* update_entry_for_path() and OPTIONAL entries.                           *)
(***************************************************************************)
\* the OPTIONAL entries among es, in their order
OptionalOf(es) == SelectSeq(es, LAMBDA e : e.tag = "OPTIONAL")

\* some Manifest that applies to op.path had an OPTIONAL entry for it
HadOptional ==
    \E k \in Keys(loaded_manifests) : \E j \in ForPath(k) :
        EntriesBefore(k)[j].tag = "OPTIONAL"

\* C37: update_entry_for_path, however it ends, leaves the OPTIONAL entries
\* of every Manifest as they were: none is modified, removed or added; and
\* when an applicable Manifest holds an OPTIONAL entry for p, the call
\* creates no entry: no Manifest gains one.
C37_OptionalUntouched ==
    op.name = "update_entry_for_path" =>
        /\ \A k \in Keys(loaded_manifests) :
              OptionalOf(Get(loaded_manifests, k)) = OptionalOf(EntriesBefore(k))
        /\ HadOptional =>
              \A k \in Keys(loaded_manifests) :
                  /\ Len(Get(loaded_manifests, k)) <= Len(EntriesBefore(k))
                  /\ \A j \in DOMAIN Get(loaded_manifests, k) :
                        Get(loaded_manifests, k)[j].tag
                            \in {EntriesBefore(k)[i].tag : i \in DOMAIN EntriesBefore(k)}

\* a call with a hash set returned for a file that is there and whose only
\* entry is OPTIONAL: the Manifests are as they were and none is in
\* updated_manifests
C37_Witness ==
    /\ op.name = "update_entry_for_path" /\ op.exc = "none"
    /\ op.hashes # NoHashes
    /\ FsGet(fs, op.path).kind = "reg"
    /\ HadOptional
    /\ NonOptionalNow = {}
    /\ \A k \in Keys(loaded_manifests) : Get(loaded_manifests, k) = EntriesBefore(k)
    /\ updated_manifests = {}

(***************************************************************************)
(* gemato.verify.get_file_metadata(): the generator as a state machine.  G *)
(* holds its position pc ("new" before the first next(), the name of the   *)
(* yield it is suspended at, "done" when it has ended), its locals exists  *)
(* and opened, the descriptors fl (one stream "fd" when os.open()          *)
(* succeeded; at counts the times it was closed), the value it yielded     *)
(* last and the exception that ended it.                                   *)
(***************************************************************************)
NewGenerator ==
    [pc |-> "new", exists |-> FALSE, opened |-> FALSE, fl |-> <<>>,
     value |-> <<>>, exc |-> "none"]

\* os.close(fd), and the close() of the file object made by os.fdopen(fd)
os_close(fl) == [i \in DOMAIN fl |-> [fl[i] EXCEPT !.state = "closed", !.at = @ + 1]]

\* the generator is suspended at the yield pc with the value v
Yielded(G, pc, v) == [G EXCEPT !.pc = pc, !.value = v]

\* the generator has ended: with StopIteration, or with the exception exc
Ended(G, exc) == [G EXCEPT !.pc = "done", !.value = <<>>, !.exc = exc]

\* the handler were it "except Exception:", which GeneratorExit passes by
ExceptExceptionClause(G, exc) ==
    Ended(IF G.opened /\ exc # "GeneratorExit" THEN [G EXCEPT !.fl = os_close(@)] ELSE G,
          exc)

\* the handler "except: if opened: os.close(fd); raise" of the try block
ExceptClause(G, exc) ==
    Ended(IF G.opened THEN [G EXCEPT !.fl = os_close(@)] ELSE G, exc)

\* the file type as get_file_metadata() names it
MetaTypeName(f) == IF f.kind = "reg" THEN "regular file" ELSE TypeName(f)

\* os.open(path, O_RDONLY|O_NONBLOCK) and the first yield
MetaOpened(G, f) ==
    IF f.kind = "absent" THEN Yielded(G, "exists", <<FALSE>>)
    ELSE IF f.enxio THEN Yielded([G EXCEPT !.exists = TRUE], "exists", <<TRUE>>)
    ELSE Yielded([G EXCEPT !.exists = TRUE, !.opened = TRUE, !.fl = <<Stream("fd")>>],
                 "exists", <<TRUE>>)

\* "with f:" to its yield: hash_file() reads the file, which fails when
\* io_error; leaving the block closes f
MetaHashed(G, f, hashes, io_error) ==
    IF io_error THEN Ended([G EXCEPT !.fl = os_close(@)], "IOError")
    ELSE Yielded(G, "checksums",
                 <<ChecksumsOf(hashes, f.data), Size(f.data)>>)

\* next(g): the generator runs from where it is to its next yield or to
\* its end; f is the file at path
MetaNext(G, f, hashes, io_error) ==
    CASE G.pc = "new" -> MetaOpened(G, f)
      [] G.pc = "exists" ->
            IF ~G.exists THEN Ended(G, "none")
            ELSE Yielded(G, "st_dev", <<f.dev>>)
      [] G.pc = "st_dev" -> Yielded(G, "type", <<f.kind, MetaTypeName(f)>>)
      [] G.pc = "type" ->
            IF f.kind # "reg"
            THEN Ended(IF G.opened THEN [G EXCEPT !.fl = os_close(@)] ELSE G, "none")
            ELSE Yielded(G, "st_size", <<StatSize(f)>>)
      [] G.pc = "st_size" ->
            IF ~G.opened THEN ExceptClause(G, "UnboundLocalError")
            ELSE MetaHashed(G, f, hashes, io_error)
      [] G.pc = "checksums" -> Ended([G EXCEPT !.fl = os_close(@)], "none")
      [] OTHER -> G

\* g.close(), which the discarding of a suspended generator comes to as
\* well: GeneratorExit is raised at the yield the generator is suspended at
MetaClose(G) ==
    CASE G.pc \in {"exists", "st_dev", "type", "st_size"} ->
            ExceptClause(G, "GeneratorExit")
      [] G.pc = "checksums" -> Ended([G EXCEPT !.fl = os_close(@)], "GeneratorExit")
      [] G.pc = "new" -> Ended(G, "none")
      [] OTHER -> G

MetaFiles ==
    {Absent}
    \union {[File("reg", d, c) EXCEPT !.zero = z] :
                d \in {1, 2}, c \in {Bytes(<<>>), Bytes(<<1>>)}, z \in BOOLEAN}
    \union {[File(k, 1, Bytes(<<>>)) EXCEPT !.enxio = TRUE] : k \in {"chr", "sock", "reg"}}
    \union {File(k, d, Bytes(<<>>)) : k \in {"dir", "fifo", "chr"}, d \in {1, 2}}

MetaHashes == {{}, {"SHA256"}, {"BLAKE2B", "SHA256"}}

\* g = get_file_metadata(path, hashes) has been called: nothing of its
\* body has run
InitMeta ==
    \E f \in MetaFiles, hashes \in MetaHashes :
        /\ fs = (ThePath :> f)
        /\ loaded_manifests = <<>>
        /\ updated_manifests = {}
        /\ manifest_device = NoDev
        /\ files = <<>>
        /\ op = [name |-> "get_file_metadata", path |-> ThePath, hashes |-> hashes,
                 at |-> "new", g |-> NewGenerator]

\* next(g)
GeneratorNext ==
    \E io_error \in BOOLEAN :
        LET G == MetaNext(op.g, fs[ThePath], op.hashes, io_error) IN
        /\ op.g.pc # "done"
        /\ files' = G.fl
        /\ op' = [op EXCEPT !.name = "next", !.at = op.g.pc, !.g = G]
        /\ UNCHANGED <<fs, loaded_manifests, updated_manifests, manifest_device>>

\* g.close()
GeneratorClose ==
    LET G == MetaClose(op.g) IN
    /\ op.g.pc # "done"
    /\ files' = G.fl
    /\ op' = [op EXCEPT !.name = "close", !.at = op.g.pc, !.g = G]
    /\ UNCHANGED <<fs, loaded_manifests, updated_manifests, manifest_device>>

NextMeta == GeneratorNext \/ GeneratorClose

SpecMeta == InitMeta /\ [][NextMeta]_vars

\* os.open() succeeds on the file at path
Openable == fs[ThePath].kind # "absent" /\ ~fs[ThePath].enxio

\* next(g) has been called at least once
Started == ~(op.at = "new" /\ op.name # "next")

\* C38: get_file_metadata holds one descriptor from its first next() on
\* when the file can be opened, and none otherwise; the descriptor is open
\* while the generator is suspended, and once the generator has ended (by
\* exhaustion, by close() at any of its yields, or by an exception) it has
\* been closed exactly once: it is never leaked and never closed twice.
C38_DescriptorReleasedOnce ==
    op.name \in {"get_file_metadata", "next", "close"} =>
        /\ Len(files) = IF Openable /\ Started THEN 1 ELSE 0
        /\ \A i \in DOMAIN files :
              /\ files[i].at <= 1
              /\ op.g.pc # "done" => (files[i].state = "open" /\ files[i].at = 0)
              /\ op.g.pc = "done" => (files[i].state = "closed" /\ files[i].at = 1)

\* the generator of a regular file was closed while it was suspended at the
\* yield of st_size, and its descriptor is closed
C38_Witness ==
    /\ op.name = "close" /\ op.at = "st_size" /\ op.g.pc = "done"
    /\ fs[ThePath].kind = "reg"
    /\ Len(files) = 1 /\ files[1].state = "closed" /\ files[1].at = 1

(***************************************************************************)
(* The queries and the verifications on a loader whose Manifests may be    *)
(* loaded or not and updated in memory or not: a tree with a/Manifest in a *)
(* directory a that may be on another device, files a/x and y, and a       *)
(* top-level Manifest that may hold a TIMESTAMP, a DIST, a stale or a      *)
(* second entry.                                                           *)
(***************************************************************************)
QuerySubPool ==
    { EntryFor("DATA", <<"x">>, {"SHA256"}, Bytes(<<1>>)),
      EntryFor("DATA", <<"x">>, {"SHA256"}, Bytes(<<2>>)) }

QueryRootPool ==
    { TIMESTAMP,
      EntryFor("DIST", <<"d">>, {"SHA256"}, Bytes(<<1>>)),
      EntryFor("DATA", <<"a", "x">>, {"BLAKE2B"}, Bytes(<<1>>)),
      EntryFor("MISC", <<"y">>, {"SHA256"}, Bytes(<<2>>)) }

QueryFs(root, sub, adev) ==
    (<<>> :> Dir(1))
    @@ (TopManifest :> File("reg", 1, ManifestText(root)))
    @@ (<<"a">> :> Dir(adev))
    @@ (SubManifest :> File("reg", adev, ManifestText(sub)))
    @@ (<<"a", "x">> :> File("reg", adev, Bytes(<<1>>)))
    @@ (<<"y">> :> File("reg", 1, Bytes(<<1>>)))

InitQuery ==
    \E sub \in SeqsUpTo(QuerySubPool, MaxDictEntries), adev \in {1, 2} :
        \E tail \in SeqsUpTo(QueryRootPool, MaxDictEntries) :
            InitFrom(QueryFs(<<EntryFor("MANIFEST", SubManifest, {"SHA256"},
                                        ManifestText(sub))>> \o tail,
                             sub, adev))

QueryNames == <<"Manifest", "a", "x", "y">>

FindTimestampQuery ==
    LET W == find_timestamp(CurWorld).W IN
    /\ Becomes(W)
    /\ op' = [name |-> "find_timestamp", path |-> <<>>, exc |-> W.exc]

FindPathEntryQuery ==
    \E path \in {<<"a", "x">>, <<"y">>} :
        LET W == find_path_entry(CurWorld, path).W IN
        /\ Becomes(W)
        /\ op' = [name |-> "find_path_entry", path |-> path, exc |-> W.exc]

FindDistEntryQuery ==
    \E relpath \in {<<>>, <<"a">>} :
        LET W == find_dist_entry(CurWorld, <<"d">>, relpath).W IN
        /\ Becomes(W)
        /\ op' = [name |-> "find_dist_entry", path |-> relpath, exc |-> W.exc]

GetFileEntryDictQuery ==
    \E path \in {<<>>, <<"a">>} :
        LET W == get_file_entry_dict(CurWorld, path, AnyType).W IN
        /\ Becomes(W)
        /\ op' = [name |-> "get_file_entry_dict", path |-> path, exc |-> W.exc]

VerifyPathQuery ==
    \E relpath \in {<<"a", "x">>, <<"y">>} :
        LET W == verify_path(CurWorld, relpath).W IN
        /\ Becomes(W)
        /\ op' = [name |-> "verify_path", path |-> relpath, exc |-> W.exc]

AssertPathVerifiesQuery ==
    \E relpath \in {<<"a", "x">>, <<"y">>} :
        LET W == assert_path_verifies(CurWorld, relpath) IN
        /\ Becomes(W)
        /\ op' = [name |-> "assert_path_verifies", path |-> relpath, exc |-> W.exc]

AssertDirectoryVerifiesQuery ==
    \E path \in {<<>>, <<"a">>}, fail \in {"raise", "False"} :
        LET W == assert_directory_verifies(CurWorld, path, Handlers(fail, "default"),
                                           QueryNames).W IN
        /\ Becomes(W)
        /\ op' = [name |-> "assert_directory_verifies", path |-> path, exc |-> W.exc]

\* an update between the queries: the entries of a file are brought up to
\* date in memory
UpdateEntryForPathQuery ==
    \E path \in {<<"a", "x">>, <<"y">>} :
        LET W == update_entry_for_path(CurWorld, path, "DATA", {"SHA256"}) IN
        /\ Becomes(W)
        /\ op' = [name |-> "update_entry_for_path", path |-> path, exc |-> W.exc]

NextQuery ==
    \/ FindTimestampQuery
    \/ FindPathEntryQuery
    \/ FindDistEntryQuery
    \/ GetFileEntryDictQuery
    \/ VerifyPathQuery
    \/ AssertPathVerifiesQuery
    \/ AssertDirectoryVerifiesQuery
    \/ UpdateEntryForPathQuery

SpecQuery == InitQuery /\ [][NextQuery]_vars

QueryOperations ==
    {"find_timestamp", "find_path_entry", "find_dist_entry", "get_file_entry_dict",
     "verify_path", "assert_path_verifies", "assert_directory_verifies"}

\* the step leaves updated_manifests and every loaded Manifest as they are
KeepsManifests ==
    /\ updated_manifests' = updated_manifests
    /\ \A k \in Keys(loaded_manifests) :
          /\ k \in Keys(loaded_manifests')
          /\ Get(loaded_manifests', k) = Get(loaded_manifests, k)

\* C39: a query or a verification (find_timestamp, find_path_entry,
\* find_dist_entry, get_file_entry_dict, verify_path, assert_path_verifies,
\* assert_directory_verifies), however it ends, leaves updated_manifests and
\* the entries of every loaded Manifest as they are, and the rest of the
\* loader's state (manifest_device) too: it only adds Manifests to
\* loaded_manifests.
C39_QueriesOnlyLoad ==
    [][op'.name \in QueryOperations =>
          (KeepsManifests /\ manifest_device' = manifest_device)]_vars

====
